---- MODULE Spec2Model ----
(***************************************************************************)
(* Model of the trader session evaluation engine (convex trader module,    *)
(* src/unnamed/part_001) and of the OANDA client it calls                  *)
(* (src/convex/lib/oanda.ts).                                              *)
(*                                                                         *)
(* The store (traderSessions, traderPositions, traderLogs) is the shared   *)
(* state.  Every Convex mutation/query is one atomic step; an action       *)
(* (evaluateSession, closeSessionPositions, tickActiveSessions) is a       *)
(* process whose steps are separated at each await.  JavaScript numbers    *)
(* are modelled as exact fractions <<n, d>> (d > 0, lowest terms); NaN is   *)
(* <<0, 0>>; a number too small for a 32-bit denominator is written        *)
(* <<n, d, 52>>, which is n/d * 2^-52; the value undefined of an optional  *)
(* number is the empty tuple.  The log table is kept as the bag of its     *)
(* entries (creation times are not modelled).                              *)
(***************************************************************************)
EXTENDS Integers, Sequences, FiniteSets, Bags, TLC

VARIABLES
    env,        \* process.env: which OANDA variables are set
    sessions,   \* table traderSessions, by session id
    positions,  \* table traderPositions, in insertion order (id = index)
    logs,       \* table traderLogs, per session: the bag of its entries
    jobs,       \* scheduled/running actions (evaluateSession, closeSessionPositions)
    cron,       \* the tickActiveSessions action: session ids left to evaluate
    broker,     \* the broker's side: open trades and next trade id
    clock,      \* Date.now()
    ev,         \* label of the last step: operation, its argument (session, job), broker request
    signalChanges \* history: per session, how often its stored lastSignal changed value

vars == <<env, sessions, positions, logs, jobs, cron, broker, clock, ev, signalChanges>>

-----------------------------------------------------------------------------
(* Bounds of the model *)

MaxSessions == 1
MaxJobs == 2
MaxOps == 3
MaxCandles == 2
\* the run with two sessions: number of sessions, operations on both together
MaxPairSessions == 2
MaxPairOps == 4
MaxRaceJobs == 3
MaxRaceOps == 4

SessionIds == 1 .. MaxSessions
PairSessionIds == 1 .. MaxPairSessions
JobIds == 1 .. MaxJobs

-----------------------------------------------------------------------------
(* Numbers: exact fractions *)

Abs(n) == IF n < 0 THEN -n ELSE n

RECURSIVE GCD(_, _)
GCD(a, b) == IF b = 0 THEN a ELSE GCD(b, a % b)

\* NaN: every comparison with it is false, every operation on it gives NaN
NaN == <<0, 0>>

R(n, d) ==
    IF d = 0 THEN NaN
    ELSE LET s == IF d < 0 THEN -1 ELSE 1
             g == GCD(Abs(n), Abs(d))
         IN  <<(s * n) \div g, (s * d) \div g>>

Undefined == <<>>
Num(n) == <<n, 1>>
\* n/d * 2^-52 (n/d in units of Number.EPSILON)
Tiny(n, d) == R(n, d) \o <<52>>
\* the scale of x, carried over to the result of an operation on x
Scale(x) == SubSeq(x, 3, Len(x))
FAdd(x, y) == R(x[1] * y[2] + y[1] * x[2], x[2] * y[2])
\* the operands of a difference have the same scale
FSub(x, y) == R(x[1] * y[2] - y[1] * x[2], x[2] * y[2]) \o Scale(x)
FMul(x, y) == R(x[1] * y[1], x[2] * y[2])
FDiv(x, y) == R(x[1] * y[2], x[2] * y[1])
FAbs(x) == [x EXCEPT ![1] = Abs(x[1])]
\* comparisons: of numbers of the same scale, or with zero
FLt(x, y) == x[2] # 0 /\ y[2] # 0 /\ x[1] * y[2] < y[1] * x[2]
FLe(x, y) == x[2] # 0 /\ y[2] # 0 /\ x[1] * y[2] <= y[1] * x[2]
FGt(x, y) == FLt(y, x)

Max(a, b) == IF a > b THEN a ELSE b
Min(a, b) == IF a < b THEN a ELSE b

-----------------------------------------------------------------------------
(* Pure functions of the trader module *)

\* validateConfig: TRUE when no Error is thrown
validateConfig(config) ==
    /\ ~(config.longWindow <= config.shortWindow)
    /\ ~FLe(config.tradeUnits, Num(0))
    /\ ~(FLe(config.takeProfitMultiplier, Num(0)) \/ FLe(config.stopLossMultiplier, Num(0)))
    /\ ~FLt(config.neutralThreshold, Num(0))

RECURSIVE SumSeq(_)
SumSeq(s) == IF s = <<>> THEN Num(0) ELSE FAdd(s[1], SumSeq(Tail(s)))

\* series.slice(start) for a start index that may be negative or past the end
SliceFrom(series, start) ==
    LET n == Len(series)
        b == IF start < 0 THEN Max(n + start, 0) ELSE Min(start, n)
    IN  SubSeq(series, b + 1, n)

movingAverage(series, length) ==
    IF Len(series) < length
    THEN IF Len(series) = 0 THEN Undefined ELSE series[Len(series)]
    ELSE LET window == SliceFrom(series, Len(series) - length)
         IN  FDiv(SumSeq(window), Num(Len(window)))   \* 0 / 0 is NaN

\* Math.abs(longMA) < Number.EPSILON (2^-52): n/d * 2^-52 < 2^-52 for a number
\* in units of 2^-52; a fraction n/d with d below 2^31 is below 2^-52 only when
\* it is 0 (NaN < Number.EPSILON is false)
BelowEpsilon(x) ==
    IF Scale(x) = <<52>> THEN x[1] < x[2]
    ELSE x[2] # 0 /\ x[1] = 0

\* a signal whose neutral band includes the threshold itself
computeSignalInclusive(shortMA, longMA, neutralThreshold) ==
    LET diff == FSub(shortMA, longMA)
    IN  IF BelowEpsilon(FAbs(longMA))
        THEN IF FGt(diff, Num(0)) THEN "long"
             ELSE IF FLt(diff, Num(0)) THEN "short" ELSE "neutral"
        ELSE LET ratio == FDiv(FAbs(diff), FAbs(longMA))
             IN  IF FLe(ratio, neutralThreshold) THEN "neutral"
                 ELSE IF FGt(diff, Num(0)) THEN "long" ELSE "short"

computeSignal(shortMA, longMA, neutralThreshold) ==
    LET diff == FSub(shortMA, longMA)
    IN  IF BelowEpsilon(FAbs(longMA))
        THEN IF FGt(diff, Num(0)) THEN "long"
             ELSE IF FLt(diff, Num(0)) THEN "short" ELSE "neutral"
        ELSE LET ratio == FDiv(FAbs(diff), FAbs(longMA))
             IN  IF FLt(ratio, neutralThreshold) THEN "neutral"
                 ELSE IF FGt(diff, Num(0)) THEN "long" ELSE "short"

-----------------------------------------------------------------------------
(* Inputs *)

\* closing prices a candle may carry (parseFloat(candle.mid.c))
Prices == {Num(10), Num(12)}

Candles == [complete : BOOLEAN, c : Prices]

RECURSIVE SeqsUpTo(_, _)
SeqsUpTo(S, n) ==
    IF n = 0 THEN {<<>>}
    ELSE LET shorter == SeqsUpTo(S, n - 1)
         IN  shorter \cup {Append(q, x) : q \in {r \in shorter : Len(r) = n - 1}, x \in S}

CandleSeries == SeqsUpTo(Candles, MaxCandles)

CfgA ==
    [shortWindow |-> 1, longWindow |-> 2, tradeUnits |-> Num(100),
     takeProfitMultiplier |-> R(2, 100), stopLossMultiplier |-> R(1, 100),
     neutralThreshold |-> R(1, 100)]

ValidConfigs == {CfgA, [CfgA EXCEPT !.neutralThreshold = Num(0), !.tradeUnits = Num(50)]}

InvalidConfigs ==
    {[CfgA EXCEPT !.longWindow = 1],
     [CfgA EXCEPT !.tradeUnits = Num(0)],
     [CfgA EXCEPT !.takeProfitMultiplier = Num(0)],
     [CfgA EXCEPT !.stopLossMultiplier = R(-1, 100)],
     [CfgA EXCEPT !.neutralThreshold = R(-1, 100)]}

\* v.number() admits NaN
NaNConfigs == {[CfgA EXCEPT !.tradeUnits = NaN]}

Configs == ValidConfigs \cup InvalidConfigs \cup NaNConfigs

Signals == {"long", "short", "neutral"}
Statuses == {"stopped", "running", "error"}

\* an optional string that is undefined
NoMessage == "undefined"

\* messages of the Errors thrown by the OANDA client
MissingKeyMsg == "Missing OANDA_API_KEY environment variable"
MissingAccountMsg == "Missing OANDA_ACCOUNT_ID environment variable"
RequestFailedMsg == "OANDA request failed"

-----------------------------------------------------------------------------
(* The store *)

UserMessages ==
    {"Created trading session", "Updated configuration", "Trading session started",
     "Trading session stopped", "Manual tick requested"}

RECURSIVE CountIn(_, _)
CountIn(log, entries) ==
    IF entries = {} THEN 0
    ELSE LET e == CHOOSE x \in entries : TRUE
         IN  log[e] + CountIn(log, entries \ {e})

\* number of entries of a log with one of the given messages
CountMessages(log, msgs) == CountIn(log, {e \in DOMAIN log : e.message \in msgs})

\* number of entries of a log of the given level
CountLevel(log, level) == CountIn(log, {e \in DOMAIN log : e.level = level})

\* number of operations on a session so far, the user's (each is logged) and
\* the cron's (bounds the activity of a run)
UserOps(s) ==
    CountMessages(logs[s], UserMessages)
        + Cardinality({j \in 1 .. Len(jobs) : jobs[j].cron /\ jobs[j].sid = s})

Exists(s) == s \in 1 .. Len(sessions)

LogEntry(level, message, details) ==
    [level |-> level, message |-> message, details |-> details]

\* a write that files every entry under the first session
InsertLogFirstSession(s, level, message, details) ==
    logs' = [logs EXCEPT ![1] = @ (+) SetToBag({LogEntry(level, message, details)})]

\* a write that replaces the session's log by the new entry
InsertLogOverwrites(s, level, message, details) ==
    logs' = [logs EXCEPT ![s] = SetToBag({LogEntry(level, message, details)})]

\* ctx.db.insert('traderLogs', ...)
InsertLog(s, level, message, details) ==
    logs' = [logs EXCEPT ![s] = @ (+) SetToBag({LogEntry(level, message, details)})]

\* label of a step of the user, the cron or the broker
Label(op, s) == [op |-> op, arg |-> s, net |-> "none"]
\* label of a step of job j; net names the request it sent to the broker
JobLabel(j, net) == [op |-> jobs[j].kind, arg |-> j, net |-> net]

\* getSessionState: ids of the session's open positions, in insertion order
OpenPositionsOf(s) ==
    LET F[i \in 0 .. Len(positions)] ==
            IF i = 0 THEN <<>>
            ELSE IF positions[i].sessionId = s /\ positions[i].status = "open"
                 THEN Append(F[i - 1], i) ELSE F[i - 1]
    IN  F[Len(positions)]

\* getActiveSessionIds
ActiveSessionIds ==
    LET F[i \in 0 .. Len(sessions)] ==
            IF i = 0 THEN <<>>
            ELSE IF sessions[i].status = "running" THEN Append(F[i - 1], i) ELSE F[i - 1]
    IN  F[Len(sessions)]

-----------------------------------------------------------------------------
(* Scheduled actions *)

NoSnapshot == [config |-> CfgA, status |-> "stopped", lastSignal |-> "neutral",
               lastShortMA |-> Undefined, lastLongMA |-> Undefined,
               lastPrice |-> Undefined, lastEvaluationTime |-> 0,
               errorMessage |-> NoMessage]

\* locals of an action that has not read anything yet
NewJob(kind, s, reason, byCron) ==
    [kind |-> kind, sid |-> s, reason |-> reason, cron |-> byCron, pc |-> "start",
     session |-> NoSnapshot, open |-> <<>>,
     shortMA |-> Undefined, longMA |-> Undefined, latestPrice |-> Undefined,
     signal |-> "neutral", previousSignal |-> "neutral",
     liveIds |-> {}, i |-> 0, active |-> 0,
     cpos |-> 0, cprice |-> Undefined, creason |-> NoMessage,
     exitPrice |-> Undefined, realizedPnl |-> Undefined,
     tradeId |-> 0, entryPrice |-> Undefined, err |-> NoMessage]

\* an action that returned (or threw): its locals are gone
Finished(job, how) == [NewJob(job.kind, job.sid, job.reason, job.cron) EXCEPT !.pc = how]

\* ctx.scheduler.runAfter(0, ...)
Schedule(kind, s, reason) == jobs' = Append(jobs, NewJob(kind, s, reason, FALSE))

CanSchedule == Len(jobs) < MaxJobs

-----------------------------------------------------------------------------
(* Initial state: empty tables, nothing scheduled *)

InitWith(ids) ==
    /\ env \in [apiKey : BOOLEAN, accountId : BOOLEAN]
    /\ sessions = <<>>
    /\ positions = <<>>
    /\ logs = [s \in ids |-> EmptyBag]
    /\ jobs = <<>>
    /\ cron = <<>>
    /\ broker = [open |-> {}, next |-> 1]
    /\ clock = 1
    /\ ev = Label("init", 0)
    /\ signalChanges = [s \in ids |-> 0]

Init == InitWith(SessionIds)

-----------------------------------------------------------------------------
(* Public mutations *)

createSession(config) ==
    /\ IF validateConfig(config)
       THEN LET sessionId == Len(sessions) + 1
            IN  /\ sessions' = Append(sessions,
                        [config |-> config, status |-> "stopped", lastSignal |-> "neutral",
                         lastShortMA |-> Undefined, lastLongMA |-> Undefined,
                         lastPrice |-> Undefined, lastEvaluationTime |-> 0,
                         errorMessage |-> NoMessage])
                /\ InsertLog(sessionId, "info", "Created trading session", <<>>)
                /\ ev' = Label("createSession", sessionId)
       ELSE /\ UNCHANGED <<sessions, logs>>
            /\ ev' = Label("createSession", 0)
    /\ UNCHANGED <<signalChanges, env, positions, jobs, cron, broker, clock>>

updateSession(s, config) ==
    /\ Exists(s)
    /\ UserOps(s) < MaxOps
    /\ IF validateConfig(config)
       THEN /\ sessions' = [sessions EXCEPT ![s].config = config]
            /\ InsertLog(s, "info", "Updated configuration", <<>>)
            /\ ev' = Label("updateSession", s)
       ELSE /\ UNCHANGED <<sessions, logs>>
            /\ ev' = Label("updateSession", s)
    /\ UNCHANGED <<signalChanges, env, positions, jobs, cron, broker, clock>>

\* a start patch that leaves the stored error message in place
StartPatchKeepsMessage(session) == [session EXCEPT !.status = "running"]

\* the patch of startSession: status running, errorMessage removed
StartPatch(session) == [session EXCEPT !.status = "running", !.errorMessage = NoMessage]

\* startSession in a run of at most maxOps operations and maxJobs jobs
startSessionWithin(s, maxOps, maxJobs) ==
    /\ Exists(s)
    /\ IF sessions[s].status = "running"
       THEN /\ UNCHANGED <<sessions, logs, jobs>>
            /\ ev' = Label("startSession", s)
       ELSE /\ UserOps(s) < maxOps
            /\ Len(jobs) < maxJobs
            /\ sessions' = [sessions EXCEPT ![s] = StartPatch(@)]
            /\ InsertLog(s, "info", "Trading session started", <<>>)
            /\ Schedule("evaluate", s, "manual-start")
            /\ ev' = Label("startSession", s)
    /\ UNCHANGED <<signalChanges, env, positions, cron, broker, clock>>

startSession(s) == startSessionWithin(s, MaxOps, MaxJobs)

\* closePositions ?? false
FlattenRequestedDefaultFalse(closePositions) == closePositions = "true"

\* closePositions ?? true, for closePositions "true", "false" or "omitted"
FlattenRequested(closePositions) ==
    IF closePositions = "omitted" THEN TRUE ELSE closePositions = "true"

\* a stop that leaves the error message in place
stopSessionKeepsMessage(s, closePositions) ==
    /\ Exists(s)
    /\ UserOps(s) < MaxOps
    /\ sessions' = [sessions EXCEPT ![s].status = "stopped"]
    /\ InsertLog(s, "info", "Trading session stopped", <<>>)
    /\ IF FlattenRequested(closePositions)
       THEN /\ CanSchedule
            /\ Schedule("close", s, "manual-stop")
       ELSE UNCHANGED jobs
    /\ ev' = Label("stopSession", <<s, closePositions>>)
    /\ UNCHANGED <<signalChanges, env, positions, cron, broker, clock>>

\* stopSession in a run of at most maxOps operations and maxJobs jobs
stopSessionWithin(s, closePositions, maxOps, maxJobs) ==
    /\ Exists(s)
    /\ UserOps(s) < maxOps
    /\ sessions' = [sessions EXCEPT ![s].status = "stopped",
                                    ![s].errorMessage = NoMessage]
    /\ InsertLog(s, "info", "Trading session stopped", <<>>)
    /\ IF FlattenRequested(closePositions)
       THEN /\ Len(jobs) < maxJobs
            /\ Schedule("close", s, "manual-stop")
       ELSE UNCHANGED jobs
    /\ ev' = Label("stopSession", <<s, closePositions>>)
    /\ UNCHANGED <<signalChanges, env, positions, cron, broker, clock>>

stopSession(s, closePositions) == stopSessionWithin(s, closePositions, MaxOps, MaxJobs)

\* requestImmediateTick in a run of at most maxOps operations and maxJobs jobs
requestImmediateTickWithin(s, maxOps, maxJobs) ==
    /\ Exists(s)
    /\ UserOps(s) < maxOps
    /\ Len(jobs) < maxJobs
    /\ InsertLog(s, "info", "Manual tick requested", <<>>)
    /\ Schedule("evaluate", s, "manual-tick")
    /\ ev' = Label("requestImmediateTick", s)
    /\ UNCHANGED <<signalChanges, env, sessions, positions, cron, broker, clock>>

requestImmediateTick(s) == requestImmediateTickWithin(s, MaxOps, MaxJobs)

-----------------------------------------------------------------------------
(* The OANDA client (src/convex/lib/oanda.ts) and the broker behind it *)

\* a configuration test that looks at the API key only
isOandaConfiguredKeyOnly == env.apiKey

isOandaConfigured == env.apiKey /\ env.accountId

\* The Error thrown before any request is sent (requireAccountId in the caller,
\* requireApiKey in oandaFetch), or NoMessage when the request goes out.
ThrownBeforeRequest(needsAccount) ==
    IF needsAccount /\ ~env.accountId THEN MissingAccountMsg
    ELSE IF ~env.apiKey THEN MissingKeyMsg
    ELSE NoMessage

\* fill prices and profit/loss figures the broker may report
FillPrices == {Num(11)}
Pnls == {Num(4)}

Fill(price, fullPrice, pl, tradeOpened, tradesOpened, tradeReduced, tradesClosed) ==
    [price |-> price, fullPrice |-> fullPrice, pl |-> pl,
     tradeOpened |-> tradeOpened, tradesOpened |-> tradesOpened,
     tradeReduced |-> tradeReduced, tradesClosed |-> tradesClosed]

\* price / fullPrice combinations of a fill
PriceShapes ==
    {<<p, Undefined>> : p \in FillPrices} \cup {<<Undefined, p>> : p \in FillPrices}
        \cup {<<Undefined, Undefined>>}

\* fills of a market order: a new trade, or an existing trade reduced or closed
OrderFills ==
    LET t == broker.next
    IN  {Fill(ps[1], ps[2], Undefined, t, <<>>, 0, <<>>) : ps \in PriceShapes}
        \cup {Fill(ps[1], ps[2], Undefined, 0, <<t>>, 0, <<>>) : ps \in PriceShapes}
        \cup {Fill(ps[1], ps[2], pl, 0, <<>>, e, <<>>) :
                ps \in PriceShapes, pl \in Pnls, e \in broker.open}
        \cup {Fill(ps[1], ps[2], pl, 0, <<>>, 0, <<e>>) :
                ps \in PriceShapes, pl \in Pnls, e \in broker.open}

\* fills of a full close of trade e
CloseFills(e) ==
    {Fill(ps[1], ps[2], pl, 0, <<>>, 0, <<e>>) :
        ps \in PriceShapes, pl \in Pnls \cup {Undefined}}

\* OandaOrderResponse: the fill is in orderFillTransaction, in
\* orderFillTransactions, or absent (the order was cancelled)
Responses(fills) ==
    {[orderFillTransaction |-> <<f>>, orderFillTransactions |-> <<>>] : f \in fills}
        \cup {[orderFillTransaction |-> <<>>, orderFillTransactions |-> <<f>>] : f \in fills}
        \cup {[orderFillTransaction |-> <<>>, orderFillTransactions |-> <<>>]}

\* response.orderFillTransaction ?? response.orderFillTransactions?.[0], as a
\* sequence of zero or one fill
FirstFill(response) ==
    IF response.orderFillTransaction # <<>> THEN response.orderFillTransaction
    ELSE IF response.orderFillTransactions # <<>>
         THEN <<response.orderFillTransactions[1]>>
         ELSE <<>>

extractTradeId(response) ==
    LET ff == FirstFill(response)
    IN  IF ff = <<>> THEN 0
        ELSE LET fill == ff[1]
             IN  IF fill.tradeOpened # 0 THEN fill.tradeOpened
                 ELSE IF Len(fill.tradesOpened) > 0 THEN fill.tradesOpened[1]
                 ELSE IF fill.tradeReduced # 0 THEN fill.tradeReduced
                 ELSE IF Len(fill.tradesClosed) > 0 THEN fill.tradesClosed[1]
                 ELSE 0

\* the price taken from a response, or the fallback
FillPrice(response, fallback) ==
    LET ff == FirstFill(response)
    IN  IF ff # <<>> /\ ff[1].price # Undefined THEN ff[1].price
        ELSE IF ff # <<>> /\ ff[1].fullPrice # Undefined THEN ff[1].fullPrice
        ELSE fallback

FillPnl(response) ==
    LET ff == FirstFill(response)
    IN  IF ff # <<>> /\ ff[1].pl # Undefined THEN ff[1].pl ELSE Undefined

\* the broker's open trades after it answered with this response
BrokerAfter(response) ==
    LET ff == FirstFill(response)
    IN  IF ff = <<>> THEN broker
        ELSE LET f == ff[1]
                 opened == (IF f.tradeOpened # 0 THEN {f.tradeOpened} ELSE {})
                             \cup {f.tradesOpened[k] : k \in 1 .. Len(f.tradesOpened)}
                 closed == {f.tradesClosed[k] : k \in 1 .. Len(f.tradesClosed)}
             IN  [open |-> (broker.open \cup opened) \ closed,
                  next |-> IF opened = {} THEN broker.next ELSE broker.next + 1]

\* the broker closes a trade on its own (take-profit or stop-loss hit)
BrokerClosesTrade(t) ==
    /\ t \in broker.open
    /\ broker' = [broker EXCEPT !.open = @ \ {t}]
    /\ ev' = Label("broker closes trade", 0)
    /\ UNCHANGED <<signalChanges, env, sessions, positions, logs, jobs, cron, clock>>

-----------------------------------------------------------------------------
(* Internal mutations *)

\* an analytics patch that writes errorMessage even when it is undefined
updateAnalyticsWritesMessage(s, lastShortMA, lastLongMA, lastPrice, lastSignal, lastEvaluationTime, errorMessage) ==
    sessions' = [sessions EXCEPT
        ![s].lastShortMA = IF lastShortMA # Undefined THEN lastShortMA ELSE @,
        ![s].lastLongMA = IF lastLongMA # Undefined THEN lastLongMA ELSE @,
        ![s].lastPrice = IF lastPrice # Undefined THEN lastPrice ELSE @,
        ![s].lastSignal = IF lastSignal # NoMessage THEN lastSignal ELSE @,
        ![s].lastEvaluationTime = IF lastEvaluationTime # 0 THEN lastEvaluationTime ELSE @,
        ![s].errorMessage = errorMessage]

\* patches only the arguments that are not undefined
updateAnalytics(s, lastShortMA, lastLongMA, lastPrice, lastSignal, lastEvaluationTime, errorMessage) ==
    sessions' = [sessions EXCEPT
        ![s].lastShortMA = IF lastShortMA # Undefined THEN lastShortMA ELSE @,
        ![s].lastLongMA = IF lastLongMA # Undefined THEN lastLongMA ELSE @,
        ![s].lastPrice = IF lastPrice # Undefined THEN lastPrice ELSE @,
        ![s].lastSignal = IF lastSignal # NoMessage THEN lastSignal ELSE @,
        ![s].lastEvaluationTime = IF lastEvaluationTime # 0 THEN lastEvaluationTime ELSE @,
        ![s].errorMessage = IF errorMessage # NoMessage THEN errorMessage ELSE @]

\* a status patch that drops the error message
setStatusDropsMessage(s, status, errorMessage) ==
    sessions' = [sessions EXCEPT ![s].status = status]

\* a status patch that also resets the analytics of the session
setStatusResetsAnalytics(s, status, errorMessage) ==
    sessions' = [sessions EXCEPT
        ![s].status = status,
        ![s].lastSignal = "neutral",
        ![s].lastPrice = Undefined,
        ![s].errorMessage = IF errorMessage # NoMessage THEN errorMessage ELSE @]

setStatus(s, status, errorMessage) ==
    sessions' = [sessions EXCEPT
        ![s].status = status,
        ![s].errorMessage = IF errorMessage # NoMessage THEN errorMessage ELSE @]

\* an insert that takes over a closed record of the session when there is one
createPositionRecordReusesClosed(s, direction, units, entryPrice, takeProfitPrice, stopLossPrice, oandaTradeId) ==
    LET closed == {p \in 1 .. Len(positions) :
                      positions[p].sessionId = s /\ positions[p].status = "closed"}
        record == [sessionId |-> s, direction |-> direction, units |-> units,
                   entryPrice |-> entryPrice, takeProfitPrice |-> takeProfitPrice,
                   stopLossPrice |-> stopLossPrice, status |-> "open",
                   oandaTradeId |-> oandaTradeId, exitPrice |-> Undefined,
                   realizedPnl |-> Undefined, closeReason |-> NoMessage]
    IN  IF closed = {} THEN positions' = Append(positions, record)
        ELSE positions' = [positions EXCEPT ![CHOOSE p \in closed : TRUE] = record]

createPositionRecord(s, direction, units, entryPrice, takeProfitPrice, stopLossPrice, oandaTradeId) ==
    positions' = Append(positions,
        [sessionId |-> s, direction |-> direction, units |-> units,
         entryPrice |-> entryPrice, takeProfitPrice |-> takeProfitPrice,
         stopLossPrice |-> stopLossPrice, status |-> "open",
         oandaTradeId |-> oandaTradeId, exitPrice |-> Undefined,
         realizedPnl |-> Undefined, closeReason |-> NoMessage])

closePositionRecord(positionId, exitPrice, realizedPnl, closeReason) ==
    IF positionId \notin 1 .. Len(positions)
    THEN UNCHANGED positions
    ELSE positions' = [positions EXCEPT
            ![positionId].status = "closed",
            ![positionId].closeReason = closeReason,
            ![positionId].exitPrice = IF exitPrice # Undefined THEN exitPrice ELSE @,
            ![positionId].realizedPnl = IF realizedPnl # Undefined THEN realizedPnl ELSE @]

-----------------------------------------------------------------------------
(* Steps of the actions.  A job's pc names the await it is suspended at. *)

SetJob(j, r) == jobs' = [jobs EXCEPT ![j] = r]

At(j, kinds, pc) ==
    /\ j \in 1 .. Len(jobs)
    /\ jobs[j].kind \in kinds
    /\ jobs[j].pc = pc

\* step 8 of a tick: open when nothing is open and the signal is new
\* an open condition that does not look at the signal recorded before the tick
OpenCheckIgnoresPrevious(job) ==
    IF Len(job.open) = 0 /\ job.signal # "neutral"
    THEN [job EXCEPT !.pc = "openInfo"]
    ELSE Finished(job, "done")

OpenCheck(job) ==
    IF Len(job.open) = 0 /\ job.signal # "neutral" /\ job.signal # job.previousSignal
    THEN [job EXCEPT !.pc = "openInfo"]
    ELSE Finished(job, "done")

\* closePositionWithBroker up to its first await: the broker request when the
\* position carries a trade id and the broker is configured, else the mutation
EnterClose(job, pos, price, reason) ==
    IF positions[pos].oandaTradeId # 0 /\ isOandaConfigured
    THEN [job EXCEPT !.pc = "closeCall", !.cpos = pos, !.cprice = price,
                     !.creason = reason]
    ELSE [job EXCEPT !.pc = "closeRecord", !.cpos = pos, !.cprice = price,
                     !.creason = reason, !.exitPrice = price,
                     !.realizedPnl = Undefined]

\* a decision step that closes the position on a neutral signal only
DecideNeutralOnly(job) ==
    IF Len(job.open) > 0 /\ job.signal = "neutral"
    THEN [job EXCEPT !.pc = "closeInfo", !.active = job.open[1], !.cpos = job.open[1],
                     !.cprice = job.latestPrice, !.creason = "neutral-signal"]
    ELSE OpenCheck([job EXCEPT !.active = IF Len(job.open) > 0 THEN job.open[1] ELSE 0])

\* step 7 of a tick: close the first open position (activePosition, 0 when
\* there is none) on a neutral or opposite signal
Decide(job) ==
    IF Len(job.open) > 0
       /\ (job.signal = "neutral" \/ job.signal # positions[job.open[1]].direction)
    THEN [job EXCEPT !.pc = "closeInfo", !.active = job.open[1], !.cpos = job.open[1],
                     !.cprice = job.latestPrice,
                     !.creason = IF job.signal = "neutral" THEN "neutral-signal"
                                 ELSE "signal-flip"]
    ELSE OpenCheck([job EXCEPT !.active = IF Len(job.open) > 0 THEN job.open[1] ELSE 0])

\* a reconcile loop that also takes positions without a trade id
NextReconcileAnyPosition(job, from) ==
    LET gone == {k \in from .. Len(job.open) :
                    positions[job.open[k]].oandaTradeId \notin job.liveIds}
    IN  IF gone = {} THEN [job EXCEPT !.pc = "resync", !.i = 0]
        ELSE [job EXCEPT !.pc = "recClose",
                         !.i = CHOOSE k \in gone : \A m \in gone : k <= m]

\* the reconcile loop: the next position from index `from` on whose trade id
\* the broker no longer lists
NextReconcile(job, from) ==
    LET gone == {k \in from .. Len(job.open) :
                    /\ positions[job.open[k]].oandaTradeId # 0
                    /\ positions[job.open[k]].oandaTradeId \notin job.liveIds}
    IN  IF gone = {} THEN [job EXCEPT !.pc = "resync", !.i = 0]
        ELSE [job EXCEPT !.pc = "recClose",
                         !.i = CHOOSE k \in gone : \A m \in gone : k <= m]

\* an exception that leaves the action it is thrown in
ThrowPropagates(job, message) == Finished(job, "threw")

\* an exception reaches the catch of evaluateSession, or leaves closeSessionPositions
Throw(job, message) ==
    IF job.kind = "evaluate"
    THEN [Finished(job, "catchLog") EXCEPT !.err = message]
    ELSE Finished(job, "threw")

Completes(candles) == SelectSeq(candles, LAMBDA c : c.complete)
Closes(candles) ==
    LET cc == Completes(candles) IN [k \in 1 .. Len(cc) |-> cc[k].c]

\* an insufficient-data guard that is off by one
InsufficientDataOffByOne(closes, session) == Len(closes) <= session.config.longWindow

\* the insufficient-data guard: closes.length < session.longWindow
InsufficientData(closes, session) == Len(closes) < session.config.longWindow

\* a status guard that only skips stopped sessions
NotRunningOnlyStopped(session) == session.status = "stopped"

\* session.status !== 'running'
NotRunning(session) == session.status # "running"

\* evaluateSession: getSessionState, then the status guard
\* a tick that begins without reading the open positions
EvalStartBlind(j) ==
    /\ At(j, {"evaluate"}, "start")
    /\ LET s == jobs[j].sid
       IN  IF NotRunning(sessions[s])
           THEN /\ SetJob(j, Finished(jobs[j], "done"))
                /\ ev' = JobLabel(j, "none")
           ELSE /\ SetJob(j, [jobs[j] EXCEPT !.pc = "fetch", !.session = sessions[s]])
                /\ ev' = JobLabel(j, "none")
    /\ UNCHANGED <<signalChanges, env, sessions, positions, logs, cron, broker, clock>>

EvalStart(j) ==
    /\ At(j, {"evaluate"}, "start")
    /\ LET s == jobs[j].sid
       IN  IF NotRunning(sessions[s])
           THEN /\ SetJob(j, Finished(jobs[j], "done"))
                /\ ev' = JobLabel(j, "none")
           ELSE /\ SetJob(j, [jobs[j] EXCEPT !.pc = "fetch", !.session = sessions[s],
                                             !.open = OpenPositionsOf(s)])
                /\ ev' = JobLabel(j, "none")
    /\ UNCHANGED <<signalChanges, env, sessions, positions, logs, cron, broker, clock>>

\* fetchCandles throws before sending anything
EvalFetchThrows(j) ==
    /\ At(j, {"evaluate"}, "fetch")
    /\ ThrownBeforeRequest(FALSE) # NoMessage
    /\ SetJob(j, Throw(jobs[j], ThrownBeforeRequest(FALSE)))
    /\ ev' = JobLabel(j, "none")
    /\ UNCHANGED <<signalChanges, env, sessions, positions, logs, cron, broker, clock>>

\* the candles request fails
EvalFetchFails(j) ==
    /\ At(j, {"evaluate"}, "fetch")
    /\ ThrownBeforeRequest(FALSE) = NoMessage
    /\ SetJob(j, Throw(jobs[j], RequestFailedMsg))
    /\ ev' = JobLabel(j, "candles")
    /\ UNCHANGED <<signalChanges, env, sessions, positions, logs, cron, broker, clock>>

\* the candles arrive: insufficient-data guard, averages and signal
EvalFetch(j) ==
    /\ At(j, {"evaluate"}, "fetch")
    /\ ThrownBeforeRequest(FALSE) = NoMessage
    /\ \E candles \in CandleSeries :
       LET job == jobs[j]
           session == job.session
           maxLookback == Max(session.config.longWindow * 2, session.config.longWindow + 5)
           count == Min(5000, Max(1, maxLookback))
           closes == Closes(candles)
       IN  /\ Len(candles) <= count
           /\ IF InsufficientData(closes, session)
              THEN SetJob(j, [job EXCEPT !.pc = "warn", !.i = Len(closes)])
              ELSE LET shortMA == movingAverage(closes, session.config.shortWindow)
                       longMA == movingAverage(closes, session.config.longWindow)
                   IN  SetJob(j, [job EXCEPT
                           !.pc = "analytics",
                           !.i = Len(closes),
                           !.shortMA = shortMA,
                           !.longMA = longMA,
                           !.latestPrice = closes[Len(closes)],
                           !.previousSignal = session.lastSignal,
                           !.signal = computeSignal(shortMA, longMA,
                                                    session.config.neutralThreshold)])
    /\ ev' = JobLabel(j, "candles")
    /\ UNCHANGED <<signalChanges, env, sessions, positions, logs, cron, broker, clock>>

EvalWarn(j) ==
    /\ At(j, {"evaluate"}, "warn")
    /\ InsertLog(jobs[j].sid, "warn", "Not enough historical candles",
                 <<jobs[j].i, jobs[j].session.config.longWindow>>)
    /\ SetJob(j, Finished(jobs[j], "done"))
    /\ ev' = JobLabel(j, "none")
    /\ UNCHANGED <<signalChanges, env, sessions, positions, cron, broker, clock>>

EvalAnalytics(j) ==
    /\ At(j, {"evaluate"}, "analytics")
    /\ LET job == jobs[j]
       IN  updateAnalytics(job.sid, job.shortMA, job.longMA, job.latestPrice,
                           job.signal, clock, NoMessage)
    /\ signalChanges' = [signalChanges EXCEPT ![jobs[j].sid] =
            IF jobs[j].signal # sessions[jobs[j].sid].lastSignal THEN @ + 1 ELSE @]
    /\ clock' = clock + 1
    /\ SetJob(j, [jobs[j] EXCEPT !.pc = "logAnalysis", !.i = 0])
    /\ ev' = JobLabel(j, "none")
    /\ UNCHANGED <<env, positions, logs, cron, broker>>

\* the analysis entry; then the reconcile request is sent when positions are
\* open and the broker is configured
EvalLogAnalysis(j) ==
    /\ At(j, {"evaluate"}, "logAnalysis")
    /\ LET job == jobs[j]
       IN  /\ InsertLog(job.sid, "analysis", "Tick processed",
                        <<job.shortMA, job.longMA, job.latestPrice, job.signal,
                          job.previousSignal,
                          IF job.reason = NoMessage THEN "scheduled" ELSE job.reason>>)
           /\ SetJob(j, IF Len(job.open) > 0 /\ isOandaConfigured
                        THEN [job EXCEPT !.pc = "sync"]
                        ELSE Decide(job))
    /\ ev' = JobLabel(j, "none")
    /\ UNCHANGED <<signalChanges, env, sessions, positions, cron, broker, clock>>

\* a failure of getOpenTrades that reaches the outer catch
EvalSyncFailsThrows(j) ==
    /\ At(j, {"evaluate"}, "sync")
    /\ SetJob(j, Throw(jobs[j], IF ThrownBeforeRequest(TRUE) # NoMessage
                                THEN ThrownBeforeRequest(TRUE) ELSE RequestFailedMsg))
    /\ ev' = JobLabel(j, IF ThrownBeforeRequest(TRUE) = NoMessage THEN "openTrades" ELSE "none")
    /\ UNCHANGED <<signalChanges, env, sessions, positions, logs, cron, broker, clock>>

\* getOpenTrades fails: the inner catch logs a warning next
EvalSyncFails(j) ==
    /\ At(j, {"evaluate"}, "sync")
    /\ SetJob(j, [jobs[j] EXCEPT !.pc = "syncWarn",
                    !.err = IF ThrownBeforeRequest(TRUE) # NoMessage
                            THEN ThrownBeforeRequest(TRUE) ELSE RequestFailedMsg])
    /\ ev' = JobLabel(j, IF ThrownBeforeRequest(TRUE) = NoMessage THEN "openTrades" ELSE "none")
    /\ UNCHANGED <<signalChanges, env, sessions, positions, logs, cron, broker, clock>>

\* getOpenTrades answers with the broker's open trades
EvalSync(j) ==
    /\ At(j, {"evaluate"}, "sync")
    /\ ThrownBeforeRequest(TRUE) = NoMessage
    /\ SetJob(j, NextReconcile([jobs[j] EXCEPT !.liveIds = broker.open], 1))
    /\ ev' = JobLabel(j, "openTrades")
    /\ UNCHANGED <<signalChanges, env, sessions, positions, logs, cron, broker, clock>>

EvalSyncWarn(j) ==
    /\ At(j, {"evaluate"}, "syncWarn")
    /\ InsertLog(jobs[j].sid, "warn", "Failed to sync open trades", <<jobs[j].err>>)
    /\ SetJob(j, Decide([jobs[j] EXCEPT !.err = NoMessage]))
    /\ ev' = JobLabel(j, "none")
    /\ UNCHANGED <<signalChanges, env, sessions, positions, cron, broker, clock>>

\* reconcile: close the record of a position the broker no longer holds
EvalRecClose(j) ==
    /\ At(j, {"evaluate"}, "recClose")
    /\ closePositionRecord(jobs[j].open[jobs[j].i], jobs[j].latestPrice, Undefined,
                           "broker-closed")
    /\ SetJob(j, [jobs[j] EXCEPT !.pc = "recLog"])
    /\ ev' = JobLabel(j, "none")
    /\ UNCHANGED <<signalChanges, env, sessions, logs, cron, broker, clock>>

EvalRecLog(j) ==
    /\ At(j, {"evaluate"}, "recLog")
    /\ LET job == jobs[j]
           pos == job.open[job.i]
       IN  /\ InsertLog(job.sid, "trade", "Detected broker-closed position",
                        <<pos, positions[pos].oandaTradeId>>)
           /\ SetJob(j, NextReconcile(job, job.i + 1))
    /\ ev' = JobLabel(j, "none")
    /\ UNCHANGED <<signalChanges, env, sessions, positions, cron, broker, clock>>

\* the open positions are read again after the reconcile loop
EvalResync(j) ==
    /\ At(j, {"evaluate"}, "resync")
    /\ SetJob(j, Decide([jobs[j] EXCEPT !.open = OpenPositionsOf(jobs[j].sid),
                                        !.liveIds = {}]))
    /\ ev' = JobLabel(j, "none")
    /\ UNCHANGED <<signalChanges, env, sessions, positions, logs, cron, broker, clock>>

EvalCloseInfo(j) ==
    /\ At(j, {"evaluate"}, "closeInfo")
    /\ LET job == jobs[j]
       IN  /\ InsertLog(job.sid, "info", "Signal requires closing current position",
                        <<job.signal, positions[job.cpos].direction>>)
           /\ SetJob(j, EnterClose(job, job.cpos, job.cprice, job.creason))
    /\ ev' = JobLabel(j, "none")
    /\ UNCHANGED <<signalChanges, env, sessions, positions, cron, broker, clock>>

\* closePositionWithBroker: closeTrade fails (the trade is gone, or the request fails)
CloseCallFails(j) ==
    /\ At(j, {"evaluate", "close"}, "closeCall")
    /\ SetJob(j, Throw(jobs[j], IF ThrownBeforeRequest(TRUE) # NoMessage
                                THEN ThrownBeforeRequest(TRUE) ELSE RequestFailedMsg))
    /\ ev' = JobLabel(j, IF ThrownBeforeRequest(TRUE) = NoMessage THEN "closeTrade" ELSE "none")
    /\ UNCHANGED <<signalChanges, env, sessions, positions, logs, cron, broker, clock>>

\* closePositionWithBroker: closeTrade answers; the trade is closed at the
\* broker when the answer carries a fill (not when the close order was cancelled)
CloseCall(j) ==
    /\ At(j, {"evaluate", "close"}, "closeCall")
    /\ ThrownBeforeRequest(TRUE) = NoMessage
    /\ LET job == jobs[j]
           tradeId == positions[job.cpos].oandaTradeId
       IN  /\ tradeId \in broker.open
           /\ \E response \in Responses(CloseFills(tradeId)) :
                /\ SetJob(j, [job EXCEPT !.pc = "closeRecord",
                                       !.exitPrice = FillPrice(response, job.cprice),
                                       !.realizedPnl = FillPnl(response)])
                /\ broker' = BrokerAfter(response)
    /\ ev' = JobLabel(j, "closeTrade")
    /\ UNCHANGED <<signalChanges, env, sessions, positions, logs, cron, clock>>

CloseRecord(j) ==
    /\ At(j, {"evaluate", "close"}, "closeRecord")
    /\ closePositionRecord(jobs[j].cpos, jobs[j].exitPrice, jobs[j].realizedPnl,
                           jobs[j].creason)
    /\ SetJob(j, [jobs[j] EXCEPT !.pc = "closeLog"])
    /\ ev' = JobLabel(j, "none")
    /\ UNCHANGED <<signalChanges, env, sessions, logs, cron, broker, clock>>

\* the trade entry of a close; a tick then reads the open positions again, the
\* flatten job goes on to its next position
CloseLog(j) ==
    /\ At(j, {"evaluate", "close"}, "closeLog")
    /\ LET job == jobs[j]
           rest == [job EXCEPT !.cpos = 0, !.cprice = Undefined, !.creason = NoMessage,
                               !.exitPrice = Undefined, !.realizedPnl = Undefined]
       IN  /\ InsertLog(job.sid, "trade", "Closed position",
                        <<job.cpos, job.creason, positions[job.cpos].oandaTradeId,
                          job.exitPrice, job.realizedPnl>>)
           /\ SetJob(j, IF job.kind = "evaluate"
                        THEN [rest EXCEPT !.pc = "requery"]
                        ELSE IF job.i < Len(job.open)
                             THEN EnterClose([rest EXCEPT !.i = job.i + 1],
                                             job.open[job.i + 1],
                                             IF job.session.lastPrice # Undefined
                                             THEN job.session.lastPrice
                                             ELSE positions[job.open[job.i + 1]].entryPrice,
                                             job.creason)
                             ELSE Finished(job, "done"))
    /\ ev' = JobLabel(j, "none")
    /\ UNCHANGED <<signalChanges, env, sessions, positions, cron, broker, clock>>

\* a tick that does not read the open positions again after the close
EvalRequeryKeepsList(j) ==
    /\ At(j, {"evaluate"}, "requery")
    /\ SetJob(j, OpenCheck(jobs[j]))
    /\ ev' = JobLabel(j, "none")
    /\ UNCHANGED <<signalChanges, env, sessions, positions, logs, cron, broker, clock>>

\* the open positions are read again after the close
EvalRequery(j) ==
    /\ At(j, {"evaluate"}, "requery")
    /\ SetJob(j, OpenCheck([jobs[j] EXCEPT !.open = OpenPositionsOf(jobs[j].sid)]))
    /\ ev' = JobLabel(j, "none")
    /\ UNCHANGED <<signalChanges, env, sessions, positions, logs, cron, broker, clock>>

\* openPositionWithBroker: units and targets
OrderUnits(session, direction) ==
    FMul(FAbs(session.config.tradeUnits), IF direction = "long" THEN Num(1) ELSE Num(-1))
\* a take-profit target placed above the market price in both directions
TakeProfitPriceAbove(session, direction, marketPrice) ==
    FMul(marketPrice, FAdd(Num(1), session.config.takeProfitMultiplier))
TakeProfitPrice(session, direction, marketPrice) ==
    IF direction = "long"
    THEN FMul(marketPrice, FAdd(Num(1), session.config.takeProfitMultiplier))
    ELSE FMul(marketPrice, FSub(Num(1), session.config.takeProfitMultiplier))
StopLossPrice(session, direction, marketPrice) ==
    IF direction = "long"
    THEN FMul(marketPrice, FSub(Num(1), session.config.stopLossMultiplier))
    ELSE FMul(marketPrice, FAdd(Num(1), session.config.stopLossMultiplier))

\* the info entry; then openPositionWithBroker up to its first await
EvalOpenInfo(j) ==
    /\ At(j, {"evaluate"}, "openInfo")
    /\ LET job == jobs[j]
       IN  /\ InsertLog(job.sid, "info", "Attempting to open new position", <<job.signal>>)
           /\ SetJob(j, IF isOandaConfigured
                        THEN [job EXCEPT !.pc = "openCall"]
                        ELSE [job EXCEPT !.pc = "openRecord", !.tradeId = 0,
                                         !.entryPrice = job.latestPrice])
    /\ ev' = JobLabel(j, "none")
    /\ UNCHANGED <<signalChanges, env, sessions, positions, cron, broker, clock>>

\* placeMarketOrder fails
OpenCallFails(j) ==
    /\ At(j, {"evaluate"}, "openCall")
    /\ SetJob(j, Throw(jobs[j], IF ThrownBeforeRequest(TRUE) # NoMessage
                                THEN ThrownBeforeRequest(TRUE) ELSE RequestFailedMsg))
    /\ ev' = JobLabel(j, IF ThrownBeforeRequest(TRUE) = NoMessage THEN "order" ELSE "none")
    /\ UNCHANGED <<signalChanges, env, sessions, positions, logs, cron, broker, clock>>

\* placeMarketOrder answers
OpenCall(j) ==
    /\ At(j, {"evaluate"}, "openCall")
    /\ ThrownBeforeRequest(TRUE) = NoMessage
    /\ \E response \in Responses(OrderFills) :
        /\ SetJob(j, [jobs[j] EXCEPT !.pc = "openRecord",
                                     !.tradeId = extractTradeId(response),
                                     !.entryPrice = FillPrice(response, jobs[j].latestPrice)])
        /\ broker' = BrokerAfter(response)
    /\ ev' = JobLabel(j, "order")
    /\ UNCHANGED <<signalChanges, env, sessions, positions, logs, cron, clock>>

OpenRecord(j) ==
    /\ At(j, {"evaluate"}, "openRecord")
    /\ LET job == jobs[j]
       IN  createPositionRecord(job.sid, job.signal, OrderUnits(job.session, job.signal),
                                job.entryPrice,
                                TakeProfitPrice(job.session, job.signal, job.latestPrice),
                                StopLossPrice(job.session, job.signal, job.latestPrice),
                                job.tradeId)
    /\ SetJob(j, [jobs[j] EXCEPT !.pc = "openLog"])
    /\ ev' = JobLabel(j, "none")
    /\ UNCHANGED <<signalChanges, env, sessions, logs, cron, broker, clock>>

OpenLog(j) ==
    /\ At(j, {"evaluate"}, "openLog")
    /\ LET job == jobs[j]
       IN  InsertLog(job.sid, "trade", "Opened position",
                     <<job.signal, OrderUnits(job.session, job.signal), job.tradeId,
                       job.entryPrice,
                       TakeProfitPrice(job.session, job.signal, job.latestPrice),
                       StopLossPrice(job.session, job.signal, job.latestPrice)>>)
    /\ SetJob(j, Finished(jobs[j], "done"))
    /\ ev' = JobLabel(j, "none")
    /\ UNCHANGED <<signalChanges, env, sessions, positions, cron, broker, clock>>

\* the catch of evaluateSession: the error entry, then the status
EvalCatchLog(j) ==
    /\ At(j, {"evaluate"}, "catchLog")
    /\ InsertLog(jobs[j].sid, "error", "Evaluation failed", <<jobs[j].err>>)
    /\ SetJob(j, [jobs[j] EXCEPT !.pc = "catchStatus"])
    /\ ev' = JobLabel(j, "none")
    /\ UNCHANGED <<signalChanges, env, sessions, positions, cron, broker, clock>>

\* a catch that records the error entry only
EvalCatchStatusSkipped(j) ==
    /\ At(j, {"evaluate"}, "catchStatus")
    /\ SetJob(j, Finished(jobs[j], "done"))
    /\ ev' = JobLabel(j, "none")
    /\ UNCHANGED <<signalChanges, env, sessions, positions, logs, cron, broker, clock>>

EvalCatchStatus(j) ==
    /\ At(j, {"evaluate"}, "catchStatus")
    /\ setStatus(jobs[j].sid, "error", jobs[j].err)
    /\ SetJob(j, Finished(jobs[j], "done"))
    /\ ev' = JobLabel(j, "none")
    /\ UNCHANGED <<signalChanges, env, positions, logs, cron, broker, clock>>

\* closeSessionPositions: getSessionState, then the first close
CloseJobStart(j) ==
    /\ At(j, {"close"}, "start")
    /\ LET job == jobs[j]
           s == job.sid
           open == OpenPositionsOf(s)
           read == [job EXCEPT !.session = sessions[s], !.open = open, !.i = 1]
       IN  SetJob(j, IF Len(open) = 0 THEN Finished(job, "done")
                     ELSE EnterClose(read, open[1],
                                     IF sessions[s].lastPrice # Undefined
                                     THEN sessions[s].lastPrice
                                     ELSE positions[open[1]].entryPrice,
                                     IF job.reason = NoMessage THEN "manual"
                                     ELSE job.reason))
    /\ ev' = JobLabel(j, "none")
    /\ UNCHANGED <<signalChanges, env, sessions, positions, logs, cron, broker, clock>>

\* tickActiveSessions: getActiveSessionIds (a run that finds no running
\* session does nothing)
CronStart ==
    /\ cron = <<>>
    /\ ActiveSessionIds # <<>>
    /\ CanSchedule
    /\ \E s \in 1 .. Len(sessions) : UserOps(s) < MaxOps
    /\ cron' = ActiveSessionIds
    /\ ev' = Label("tickActiveSessions", 0)
    /\ UNCHANGED <<signalChanges, env, sessions, positions, logs, jobs, broker, clock>>

\* tickActiveSessions: runAction(evaluateSession) for the next id, once the
\* previous one returned
CronNext ==
    /\ cron # <<>>
    /\ \A j \in 1 .. Len(jobs) : jobs[j].cron => jobs[j].pc = "done"
    /\ CanSchedule
    /\ UserOps(Head(cron)) < MaxOps
    /\ jobs' = Append(jobs, NewJob("evaluate", Head(cron), NoMessage, TRUE))
    /\ cron' = Tail(cron)
    /\ ev' = Label("tickActiveSessions", Head(cron))
    /\ UNCHANGED <<signalChanges, env, sessions, positions, logs, broker, clock>>

-----------------------------------------------------------------------------

\* the sessions and the jobs that exist
SessionsNow == 1 .. Len(sessions)
JobsNow == 1 .. Len(jobs)

\* every scheduled action has returned
AllJobsDone == \A j \in JobsNow : jobs[j].pc \in {"done", "threw"}

StopArgs == {"true", "false", "omitted"}

JobStep(j) ==
    \/ EvalStart(j)
    \/ EvalFetchThrows(j)
    \/ EvalFetchFails(j)
    \/ EvalFetch(j)
    \/ EvalWarn(j)
    \/ EvalAnalytics(j)
    \/ EvalLogAnalysis(j)
    \/ EvalSyncFails(j)
    \/ EvalSync(j)
    \/ EvalSyncWarn(j)
    \/ EvalRecClose(j)
    \/ EvalRecLog(j)
    \/ EvalResync(j)
    \/ EvalCloseInfo(j)
    \/ CloseCallFails(j)
    \/ CloseCall(j)
    \/ CloseRecord(j)
    \/ CloseLog(j)
    \/ EvalRequery(j)
    \/ EvalOpenInfo(j)
    \/ OpenCallFails(j)
    \/ OpenCall(j)
    \/ OpenRecord(j)
    \/ OpenLog(j)
    \/ EvalCatchLog(j)
    \/ EvalCatchStatus(j)
    \/ CloseJobStart(j)

Next ==
    \/ \E config \in {CfgA} \cup InvalidConfigs :
            Len(sessions) < MaxSessions /\ createSession(config)
    \/ \E s \in SessionIds, config \in Configs : updateSession(s, config)
    \/ \E s \in SessionIds : startSession(s)
    \/ \E s \in SessionIds, closePositions \in StopArgs : stopSession(s, closePositions)
    \/ \E s \in SessionIds : requestImmediateTick(s)
    \/ \E j \in JobIds : JobStep(j)
    \/ CronStart
    \/ CronNext
    \/ \E t \in broker.open : BrokerClosesTrade(t)

Spec == Init /\ [][Next]_vars

\* Ticks of a session that never overlap: a tick begins only when every other
\* tick of its session has either not begun or has returned.
NoOverlap(j) ==
    (j \in JobsNow /\ jobs[j].kind = "evaluate" /\ jobs[j].pc = "start")
        => \A k \in JobsNow \ {j} :
              (jobs[k].kind = "evaluate" /\ jobs[k].sid = jobs[j].sid)
                  => jobs[k].pc \in {"start", "done", "threw"}

NextSerial ==
    \/ \E config \in {CfgA} \cup InvalidConfigs :
            Len(sessions) < MaxSessions /\ createSession(config)
    \/ \E s \in SessionIds, config \in Configs : updateSession(s, config)
    \/ \E s \in SessionIds : startSession(s)
    \/ \E s \in SessionIds, closePositions \in StopArgs : stopSession(s, closePositions)
    \/ \E s \in SessionIds : requestImmediateTick(s)
    \/ \E j \in JobIds : NoOverlap(j) /\ JobStep(j)
    \/ CronStart
    \/ CronNext
    \/ \E t \in broker.open : BrokerClosesTrade(t)

SpecSerial == Init /\ [][NextSerial]_vars

\* One session in a longer run, for the races on a position that exists
\* already: up to MaxRaceJobs jobs and MaxRaceOps operations; the credentials
\* are both set or both missing, the configuration is valid, the latest close
\* of every candle series is 12, the user starts the session and asks for an
\* immediate tick, and the broker closes a trade, only while no job is in
\* progress, and the user stops with closePositions at any time.
RaceJobIds == 1 .. MaxRaceJobs

InitRace == Init /\ env.apiKey = env.accountId

NextRace ==
    \/ Len(sessions) < MaxSessions /\ createSession(CfgA)
    \/ \E s \in SessionIds : AllJobsDone /\ startSessionWithin(s, MaxRaceOps, MaxRaceJobs)
    \/ \E s \in SessionIds : stopSessionWithin(s, "true", MaxRaceOps, MaxRaceJobs)
    \/ \E s \in SessionIds :
            AllJobsDone /\ requestImmediateTickWithin(s, MaxRaceOps, MaxRaceJobs)
    \/ \E j \in RaceJobIds : JobStep(j) /\ jobs'[j].latestPrice \in {Undefined, Num(12)}
    \/ \E t \in broker.open : AllJobsDone /\ BrokerClosesTrade(t)

SpecRace == InitRace /\ [][NextRace]_vars

\* The scheduler runs every scheduled function, and a function that is
\* running gets each of its awaited calls answered (with a result or an
\* error): every job keeps taking steps until it has returned.
\* sessions whose windows are the smallest that validateConfig accepts
WindowConfigs ==
    {CfgA,
     [CfgA EXCEPT !.shortWindow = 0],
     [CfgA EXCEPT !.shortWindow = 0, !.longWindow = 1],
     [CfgA EXCEPT !.shortWindow = 2]}

InitWindow == Init /\ env.apiKey = env.accountId

NextWindow ==
    \/ Len(sessions) < MaxSessions /\ \E config \in WindowConfigs : createSession(config)
    \/ \E s \in SessionIds : AllJobsDone /\ startSession(s)
    \/ \E s \in SessionIds : AllJobsDone /\ stopSession(s, "true")
    \/ \E s \in SessionIds : AllJobsDone /\ requestImmediateTick(s)
    \/ \E j \in JobIds : JobStep(j) /\ jobs'[j].latestPrice \in {Undefined, Num(12)}
    \/ \E t \in broker.open : AllJobsDone /\ BrokerClosesTrade(t)

SpecWindow == InitWindow /\ [][NextWindow]_vars

Fairness == \A j \in JobIds : WF_vars(JobStep(j))

\* One session under fair scheduling: the credentials are both set or both
\* missing, the session is created with a valid configuration, the latest
\* close of every candle series is 12, and the user stops the session (with
\* closePositions) and asks for an immediate tick, and the broker closes a
\* trade, while no job is in progress.
InitFair == Init /\ env.apiKey = env.accountId

NextFair ==
    \/ Len(sessions) < MaxSessions /\ createSession(CfgA)
    \/ \E s \in SessionIds : startSession(s)
    \/ \E s \in SessionIds : AllJobsDone /\ stopSession(s, "true")
    \/ \E s \in SessionIds : AllJobsDone /\ requestImmediateTick(s)
    \/ \E j \in JobIds : JobStep(j) /\ jobs'[j].latestPrice \in {Undefined, Num(12)}
    \/ \E t \in broker.open : AllJobsDone /\ BrokerClosesTrade(t)

SpecFair == InitFair /\ [][NextFair]_vars /\ Fairness

-----------------------------------------------------------------------------
(* Two sessions side by side *)

\* operations so far on all sessions together
PairOps ==
    LET F[s \in 0 .. Len(sessions)] == IF s = 0 THEN 0 ELSE F[s - 1] + UserOps(s)
    IN  F[Len(sessions)]

\* the sessions are created before the first action is scheduled
PairBudget ==
    /\ PairOps < MaxPairOps
    /\ jobs # <<>> => Len(sessions) = MaxPairSessions

InitPair == InitWith(PairSessionIds)

NextPair ==
    \/ Len(sessions) < MaxPairSessions /\ PairBudget /\ createSession(CfgA)
    \/ \E s \in PairSessionIds : PairBudget /\ updateSession(s, CfgA)
    \/ \E s \in PairSessionIds : PairBudget /\ startSession(s)
    \/ \E s \in PairSessionIds, closePositions \in {"omitted", "false"} :
            PairBudget /\ stopSession(s, closePositions)
    \/ \E s \in PairSessionIds : PairBudget /\ requestImmediateTick(s)
    \/ \E j \in JobIds : JobStep(j)
    \/ PairBudget /\ CronStart
    \/ PairBudget /\ CronNext
    \/ \E t \in broker.open : BrokerClosesTrade(t)

SpecPair == InitPair /\ [][NextPair]_vars

-----------------------------------------------------------------------------
(* computeSignal on its own: calls with arguments drawn from small sets *)

\* moving averages: ordinary prices, zero, and values around Number.EPSILON
OrdinaryMAs == {Num(0), Num(5), Num(98), Num(100), R(201, 2), Num(101), Num(102), Num(-100)}
TinyMAs == {Tiny(1, 2), Tiny(1, 1), Tiny(2, 1)}
MAPairs == (OrdinaryMAs \X OrdinaryMAs) \cup (TinyMAs \X TinyMAs)
Thresholds == {Num(0), R(1, 100), R(1, 2), Num(5)}

computeSignalCall ==
    /\ \E mas \in MAPairs, neutralThreshold \in Thresholds :
        ev' = [op |-> "computeSignal",
               arg |-> [shortMA |-> mas[1], longMA |-> mas[2],
                        neutralThreshold |-> neutralThreshold,
                        result |-> computeSignal(mas[1], mas[2], neutralThreshold)],
               net |-> "none"]
    /\ UNCHANGED <<signalChanges, env, sessions, positions, logs, jobs, cron, broker, clock>>

NextSignal == computeSignalCall

SpecSignal == Init /\ [][NextSignal]_vars

-----------------------------------------------------------------------------
(* Properties *)


\* the step just taken is a step of tick j
TickStep(j) == jobs[j].kind = "evaluate" /\ ev'.op = "evaluate" /\ ev'.arg = j

\* entries written by the engine's actions (not by a public mutation)
EngineEntries(s) == CountIn(logs[s], {e \in DOMAIN logs[s] : e.message \notin UserMessages})


\* no OANDA variable is set / the engine is in paper mode
NoCredentials == ~env.apiKey /\ ~env.accountId
PaperMode == ~(env.apiKey /\ env.accountId)

\* C1: every session has at most one position whose status is open, in every
\* reachable state (overlapping ticks of one session included).
C1_AtMostOneOpenPosition ==
    \A s \in SessionsNow : Len(OpenPositionsOf(s)) <= 1

\* C2: a tick that reads a session whose status is stopped or error ends at
\* once: it changes no session, position or log record, sends no broker
\* request and leaves the status as it is.
C2_NonRunningTickIsNoop ==
    [][\A j \in JobsNow :
        (/\ TickStep(j)
         /\ jobs[j].pc = "start"
         /\ sessions[jobs[j].sid].status \in {"stopped", "error"})
        => /\ UNCHANGED <<sessions, positions, logs, broker, clock>>
           /\ ev'.net = "none"
           /\ jobs'[j].pc = "done"]_vars

\* a tick has just ended on a stopped session and no action ever wrote a log entry
C2_Witness ==
    /\ ev.op = "evaluate"
    /\ jobs[ev.arg].pc = "done"
    /\ sessions[jobs[ev.arg].sid].status = "stopped"
    /\ EngineEntries(jobs[ev.arg].sid) = 0

\* C3: when placeMarketOrder or closeTrade fails in a tick, the failing step
\* and the tick's remaining steps (error entry, setStatus) change no position
\* record, and the tick ends with status error and the failure's message stored.
C3_FailedOrderEndsInError ==
    [][\A j \in JobsNow :
        TickStep(j) =>
            /\ (jobs[j].pc \in {"openCall", "closeCall"}
                    /\ jobs'[j].pc \notin {"openRecord", "closeRecord"})
                => /\ positions' = positions
                   /\ jobs'[j].pc = "catchLog"
                   /\ jobs'[j].err # NoMessage
            /\ jobs[j].pc = "catchLog"
                => /\ positions' = positions
                   /\ jobs'[j].pc = "catchStatus"
                   /\ jobs'[j].err = jobs[j].err
            /\ jobs[j].pc = "catchStatus"
                => /\ positions' = positions
                   /\ jobs'[j].pc = "done"
                   /\ jobs[j].err # NoMessage
                   /\ sessions'[jobs[j].sid].status = "error"
                   /\ sessions'[jobs[j].sid].errorMessage = jobs[j].err]_vars

\* a tick that announced an open has ended in error and no position was recorded
C3_Witness ==
    /\ ev.op = "evaluate"
    /\ AllJobsDone
    /\ positions = <<>>
    /\ LET s == jobs[ev.arg].sid
       IN  /\ sessions[s].status = "error"
           /\ sessions[s].errorMessage = RequestFailedMsg
           /\ CountMessages(logs[s], {"Attempting to open new position"}) = 1
           /\ CountLevel(logs[s], "error") = 1

\* C4: without broker credentials no step sends a broker request and no
\* session is moved to error.
C4_PaperTickNeverFails ==
    NoCredentials =>
        /\ ev.net = "none"
        /\ \A s \in SessionsNow : sessions[s].status # "error"

\* C5: in paper mode the open of a position sends no broker request and
\* inserts exactly one record: open, without trade id, entry price the tick's
\* market price, direction the signal.
C5_PaperOpenIsLocal ==
    [][\A j \in JobsNow :
        (PaperMode /\ TickStep(j) /\ jobs[j].pc \in {"openInfo", "openRecord", "openLog"})
        => /\ ev'.net = "none"
           /\ broker' = broker
           /\ jobs[j].pc = "openInfo"
                => positions' = positions /\ jobs'[j].pc = "openRecord"
           /\ jobs[j].pc = "openRecord"
                => /\ Len(positions') = Len(positions) + 1
                   /\ SubSeq(positions', 1, Len(positions)) = positions
                   /\ LET p == positions'[Len(positions')]
                      IN  /\ p.sessionId = jobs[j].sid
                          /\ p.status = "open"
                          /\ p.oandaTradeId = 0
                          /\ p.entryPrice = jobs[j].latestPrice
                          /\ p.direction = jobs[j].signal
                   /\ jobs'[j].pc = "openLog"
           /\ jobs[j].pc = "openLog"
                => positions' = positions /\ jobs'[j].pc = "done"]_vars

\* a paper position has just been recorded
C5_Witness ==
    /\ PaperMode
    /\ ev.op = "evaluate"
    /\ jobs[ev.arg].pc = "openLog"
    /\ Len(positions) = 1
    /\ positions[1].status = "open"
    /\ positions[1].oandaTradeId = 0

\* C6: a tick that gets fewer closing prices than longWindow (and only such a
\* tick) takes the warning path, on which it adds exactly one warn entry and
\* changes nothing else: no session field, no position, no broker request.
C6_InsufficientDataWarnsOnly ==
    [][\A j \in JobsNow :
        TickStep(j) =>
            /\ (jobs[j].pc = "fetch" /\ jobs'[j].pc \in {"warn", "analytics"})
                => /\ (jobs'[j].i < jobs[j].session.config.longWindow)
                        <=> (jobs'[j].pc = "warn")
                   /\ UNCHANGED <<sessions, positions, logs>>
            /\ jobs[j].pc = "warn"
                => /\ UNCHANGED <<sessions, positions, broker, clock>>
                   /\ ev'.net = "none"
                   /\ jobs'[j].pc = "done"
                   /\ \E e \in DOMAIN logs'[jobs[j].sid] :
                        /\ e.level = "warn"
                        /\ logs' = [logs EXCEPT ![jobs[j].sid] = @ (+) SetToBag({e})]]_vars

\* a tick has just ended with its warning: the session is running, no analytics
C6_Witness ==
    /\ ev.op = "evaluate"
    /\ jobs[ev.arg].pc = "done"
    /\ LET s == jobs[ev.arg].sid
       IN  /\ CountLevel(logs[s], "warn") = 1
           /\ EngineEntries(s) = 1
           /\ sessions[s].status = "running"
           /\ sessions[s].lastEvaluationTime = 0
           /\ sessions[s].errorMessage = NoMessage

\* C7: whenever a session's status becomes error, it was running just before.
C7_ErrorOnlyFromRunning ==
    [][\A s \in SessionsNow :
        (sessions'[s].status = "error" /\ sessions[s].status # "error")
        => sessions[s].status = "running"]_vars

\* C8: startSession on a stopped or error session sets it running, removes the
\* error message and schedules exactly one tick of it; on a running session it
\* changes nothing.
C8_StartSession ==
    [][\A s \in SessionsNow :
        (ev'.op = "startSession" /\ ev'.arg = s) =>
            IF sessions[s].status = "running"
            THEN UNCHANGED <<sessions, positions, logs, jobs, cron, broker>>
            ELSE /\ sessions'[s].status = "running"
                 /\ sessions'[s].errorMessage = NoMessage
                 /\ positions' = positions
                 /\ Len(jobs') = Len(jobs) + 1
                 /\ SubSeq(jobs', 1, Len(jobs)) = jobs
                 /\ jobs'[Len(jobs')].kind = "evaluate"
                 /\ jobs'[Len(jobs')].sid = s
                 /\ jobs'[Len(jobs')].pc = "start"]_vars

\* a session that had failed has just been started again
C8_Witness ==
    /\ ev.op = "startSession"
    /\ sessions[ev.arg].status = "running"
    /\ sessions[ev.arg].errorMessage = NoMessage
    /\ CountLevel(logs[ev.arg], "error") = 1
    /\ CountMessages(logs[ev.arg], {"Trading session started"}) = 2
    /\ jobs[Len(jobs)].pc = "start"

\* C9: stopSession sets the status to stopped whatever the positions are,
\* changes no position and sends nothing to the broker; it schedules one
\* closeSessionPositions job when closePositions is true or omitted, none
\* when it is false.
C9_StopSession ==
    [][\A s \in SessionsNow :
        (ev'.op = "stopSession" /\ ev'.arg[1] = s) =>
            /\ sessions'[s].status = "stopped"
            /\ positions' = positions
            /\ broker' = broker
            /\ IF ev'.arg[2] \in {"true", "omitted"}
               THEN /\ Len(jobs') = Len(jobs) + 1
                    /\ SubSeq(jobs', 1, Len(jobs)) = jobs
                    /\ jobs'[Len(jobs')].kind = "close"
                    /\ jobs'[Len(jobs')].sid = s
                    /\ jobs'[Len(jobs')].pc = "start"
               ELSE jobs' = jobs]_vars

\* a session with an open position has just been stopped, closePositions omitted
C9_Witness ==
    /\ ev.op = "stopSession"
    /\ ev.arg[2] = "omitted"
    /\ sessions[ev.arg[1]].status = "stopped"
    /\ Len(OpenPositionsOf(ev.arg[1])) = 1
    /\ jobs[Len(jobs)].kind = "close"
    /\ jobs[Len(jobs)].pc = "start"

\* C10 as stated: a stored error message is removed only by startSession.
C10_ClearedOnlyByStart ==
    [][\A s \in SessionsNow :
        (sessions[s].errorMessage # NoMessage /\ sessions'[s].errorMessage = NoMessage)
        => (ev'.op = "startSession" /\ ev'.arg = s)]_vars

\* C10 amended: a stored error message is removed only by startSession or
\* stopSession of that session; every other step leaves an error message on
\* the record.
C10_ClearedOnlyByStartOrStop ==
    [][\A s \in SessionsNow :
        (sessions[s].errorMessage # NoMessage /\ sessions'[s].errorMessage = NoMessage)
        => \/ ev'.op = "startSession" /\ ev'.arg = s
           \/ ev'.op = "stopSession" /\ ev'.arg[1] = s]_vars

\* the configuration of a failed session has just been updated, message kept
C10_Witness ==
    /\ ev.op = "updateSession"
    /\ sessions[ev.arg].status = "error"
    /\ sessions[ev.arg].errorMessage # NoMessage

\* C11: a failure of the candle fetch, of the order placement or of a trade
\* close in a tick does not leave the tick: the tick goes to its catch, which
\* appends exactly one entry of level error carrying the failure message and
\* then sets the status to error with that message, and the tick returns
\* normally; no other step of a tick writes an error entry.
C11_TickOwnsItsFailure ==
    [][\A j \in JobsNow :
        TickStep(j) =>
            LET s == jobs[j].sid
            IN  /\ jobs'[j].pc # "threw"
                /\ (\/ jobs[j].pc = "fetch" /\ jobs'[j].pc \notin {"warn", "analytics"}
                    \/ jobs[j].pc = "openCall" /\ jobs'[j].pc # "openRecord"
                    \/ jobs[j].pc = "closeCall" /\ jobs'[j].pc # "closeRecord")
                    => /\ jobs'[j].pc = "catchLog"
                       /\ jobs'[j].err \in {MissingKeyMsg, MissingAccountMsg, RequestFailedMsg}
                       /\ UNCHANGED <<sessions, positions, logs>>
                /\ jobs[j].pc = "catchLog"
                    => /\ logs' = [logs EXCEPT ![s] =
                                @ (+) SetToBag({LogEntry("error", "Evaluation failed",
                                                         <<jobs[j].err>>)})]
                       /\ jobs'[j].pc = "catchStatus"
                       /\ jobs'[j].err = jobs[j].err
                       /\ UNCHANGED <<sessions, positions>>
                /\ jobs[j].pc = "catchStatus"
                    => /\ sessions'[s].status = "error"
                       /\ sessions'[s].errorMessage = jobs[j].err
                       /\ jobs'[j].pc = "done"
                       /\ UNCHANGED <<positions, logs>>
                /\ jobs[j].pc # "catchLog"
                    => CountLevel(logs'[s], "error") = CountLevel(logs[s], "error")]_vars

\* a tick whose candle request failed has returned: one error entry, nothing
\* else written by the engine, status error with the request's message
C11_Witness ==
    /\ ev.op = "evaluate"
    /\ jobs[ev.arg].pc = "done"
    /\ LET s == jobs[ev.arg].sid
       IN  /\ sessions[s].status = "error"
           /\ sessions[s].errorMessage = RequestFailedMsg
           /\ CountLevel(logs[s], "error") = 1
           /\ EngineEntries(s) = 1

\* C12: when getOpenTrades fails in the reconcile step, the failure stays in
\* the inner catch: the tick appends one warn entry, changes no session or
\* position record, and goes on to the close/open decision with the list of
\* open positions it read at its start.
C12_SyncFailureIsWarning ==
    [][\A j \in JobsNow :
        TickStep(j) =>
            LET s == jobs[j].sid
                job == jobs[j]
            IN  /\ (job.pc \in {"fetch", "analytics", "logAnalysis", "sync", "syncWarn"}
                        /\ jobs'[j].pc \in {"analytics", "logAnalysis", "sync", "syncWarn",
                                            "closeInfo", "openInfo"})
                    => jobs'[j].open = job.open
                /\ job.pc = "sync"
                    => /\ jobs'[j].pc \in {"syncWarn", "recClose", "resync"}
                       /\ UNCHANGED <<sessions, positions, logs>>
                /\ job.pc = "syncWarn"
                    => /\ UNCHANGED <<sessions, positions>>
                       /\ \E e \in DOMAIN logs'[s] :
                            /\ e.level = "warn"
                            /\ e.message = "Failed to sync open trades"
                            /\ logs' = [logs EXCEPT ![s] = @ (+) SetToBag({e})]
                       /\ LET active == job.open[1]
                              closes == \/ job.signal = "neutral"
                                        \/ job.signal # positions[active].direction
                          IN  /\ Len(job.open) > 0
                              /\ closes => /\ jobs'[j].pc = "closeInfo"
                                           /\ jobs'[j].cpos = active
                              /\ ~closes => jobs'[j].pc = "done"]_vars

\* a running session's tick has just logged the failed sync and goes on to
\* close the position it read at its start
C12_Witness ==
    /\ ev.op = "evaluate"
    /\ jobs[ev.arg].pc = "closeInfo"
    /\ LET s == jobs[ev.arg].sid
       IN  /\ sessions[s].status = "running"
           /\ CountMessages(logs[s], {"Failed to sync open trades"}) = 1
           /\ CountLevel(logs[s], "error") = 0
           /\ positions[jobs[ev.arg].cpos].status = "open"

\* the tick has an active position, and its signal is the direction opposite
\* to that position's and differs from the signal stored before the tick
FlipTick(j) ==
    /\ jobs[j].kind = "evaluate"
    /\ jobs[j].active # 0
    /\ jobs[j].signal # "neutral"
    /\ jobs[j].signal # positions[jobs[j].active].direction
    /\ jobs[j].signal # jobs[j].previousSignal

\* the step records the close of the tick's active position, reason
\* signal-flip, and changes no other position
ClosesActive(j) ==
    /\ Len(positions') = Len(positions)
    /\ \A p \in 1 .. Len(positions) : p # jobs[j].active => positions'[p] = positions[p]
    /\ positions'[jobs[j].active].status = "closed"
    /\ positions'[jobs[j].active].closeReason = "signal-flip"
    /\ positions'[jobs[j].active].direction = positions[jobs[j].active].direction

\* the step records one new open position of the tick's session in the
\* direction of the signal, and changes no other position
OpensOne(j) ==
    /\ Len(positions') = Len(positions) + 1
    /\ SubSeq(positions', 1, Len(positions)) = positions
    /\ positions'[Len(positions')].sessionId = jobs[j].sid
    /\ positions'[Len(positions')].status = "open"
    /\ positions'[Len(positions')].direction = jobs[j].signal

\* the steps of a tick from the close decision to its end, where a broker
\* request may fail (mayFail) or not, and the open follows the close always
\* or only when the list read again is empty (rereads)
FlipChain(j, mayFail, rereads) ==
    LET pc == jobs[j].pc
        to == jobs'[j].pc
        failure == IF mayFail THEN {"catchLog"} ELSE {}
    IN  /\ pc \notin {"closeRecord", "openRecord"} => positions' = positions
        /\ pc = "closeInfo" => to \in {"closeCall", "closeRecord"}
        /\ pc = "closeCall" => to \in {"closeRecord"} \cup failure
        /\ pc = "closeRecord" => ClosesActive(j) /\ to = "closeLog"
        /\ pc = "closeLog" => to = "requery"
        /\ pc = "requery" =>
              IF rereads /\ OpenPositionsOf(jobs[j].sid) # <<>>
              THEN to = "done" ELSE to = "openInfo"
        /\ pc = "openInfo" => to \in {"openCall", "openRecord"}
        /\ pc = "openCall" => to \in {"openRecord"} \cup failure
        /\ pc = "openRecord" => OpensOne(j) /\ to = "openLog"
        /\ pc = "openLog" => to = "done"

\* a position opened by a tick that closed its active position has the other
\* direction
NoReopenSameDirection(j) ==
    (jobs[j].pc = "openRecord" /\ jobs[j].active # 0)
        => positions'[Len(positions')].direction # positions[jobs[j].active].direction

\* C13 as stated: in a tick with an open position, an opposite signal that
\* differs from the stored one, exactly one close (signal-flip) is performed
\* and exactly one open in the new direction follows; and no tick opens, after
\* a close by the signal rule, a position in the direction of the closed one.
C13_FlipClosesAndReopens ==
    [][\A j \in JobsNow :
        TickStep(j) =>
            /\ FlipTick(j) => FlipChain(j, FALSE, FALSE)
            /\ NoReopenSameDirection(j)]_vars

\* C13 amended: such a tick attempts exactly one close of its active position
\* and, when the close is recorded and the session has no open position at the
\* re-read, exactly one open in the new direction; a failing closeTrade or
\* placeMarketOrder ends the tick in its catch instead (no record changed by
\* the failing step).  No tick opens, after a close by the signal rule, a
\* position in the direction of the closed one.
C13_FlipClosesAndReopensUnlessFailure ==
    [][\A j \in JobsNow :
        TickStep(j) =>
            /\ FlipTick(j) => FlipChain(j, TRUE, TRUE)
            /\ NoReopenSameDirection(j)]_vars

\* a tick has closed a long position on a short signal and recorded the short one
C13_Witness ==
    /\ ev.op = "evaluate"
    /\ jobs[ev.arg].pc = "openLog"
    /\ FlipTick(ev.arg)
    /\ Len(positions) = 2
    /\ positions[1].status = "closed"
    /\ positions[1].closeReason = "signal-flip"
    /\ positions[1].direction = "long"
    /\ positions[2].status = "open"
    /\ positions[2].direction = "short"

\* number of position records ever created for session s (none is deleted)
PositionsOpened(s) == Cardinality({p \in 1 .. Len(positions) : positions[p].sessionId = s})

\* C14: the number of positions opened for a session never exceeds the number
\* of times its stored lastSignal changed (at most one open per signal
\* transition).
C14_OneOpenPerSignalChange ==
    \A s \in SessionsNow : PositionsOpened(s) <= signalChanges[s]

\* the sign rule: long, short or neutral by the sign of shortMA - longMA
BySign(shortMA, longMA) ==
    IF FGt(shortMA, longMA) THEN "long"
    ELSE IF FLt(shortMA, longMA) THEN "short" ELSE "neutral"

\* the threshold rule: neutral exactly when |shortMA - longMA| / |longMA| is
\* below the threshold, else long above and short below the long average
ByRatio(shortMA, longMA, threshold, result) ==
    /\ (result = "neutral")
            <=> FLt(FDiv(FAbs(FSub(shortMA, longMA)), FAbs(longMA)), threshold)
    /\ (result # "neutral" /\ FGt(shortMA, longMA)) => result = "long"
    /\ (result # "neutral" /\ FLt(shortMA, longMA)) => result = "short"

\* the three examples of the specification
SignalExamples(a) ==
    /\ (a.longMA = Num(100) /\ a.shortMA = R(201, 2) /\ a.neutralThreshold = R(1, 100))
            => a.result = "neutral"
    /\ (a.longMA = Num(100) /\ a.shortMA = Num(102) /\ a.neutralThreshold = R(1, 100))
            => a.result = "long"
    /\ (a.longMA = Num(0) /\ a.shortMA = Num(5)) => a.result = "long"

\* C15 as stated: with longMA not zero computeSignal follows the threshold
\* rule, with longMA exactly zero the sign rule whatever the threshold; the
\* three examples give neutral, long and long.
C15_ComputeSignalZeroOnly ==
    ev.op = "computeSignal" =>
        /\ IF ev.arg.longMA[1] = 0
           THEN ev.arg.result = BySign(ev.arg.shortMA, ev.arg.longMA)
           ELSE ByRatio(ev.arg.shortMA, ev.arg.longMA, ev.arg.neutralThreshold,
                        ev.arg.result)
        /\ SignalExamples(ev.arg)

\* |x| is below Number.EPSILON = 2^-52
UnderEpsilon(x) == x[1] = 0 \/ (Scale(x) = <<52>> /\ Abs(x[1]) < x[2])

\* C15 amended: with |longMA| at least Number.EPSILON computeSignal follows
\* the threshold rule, with |longMA| below Number.EPSILON (zero included) the
\* sign rule whatever the threshold; the three examples give neutral, long
\* and long.
C15_ComputeSignalBelowEpsilon ==
    ev.op = "computeSignal" =>
        /\ IF UnderEpsilon(ev.arg.longMA)
           THEN ev.arg.result = BySign(ev.arg.shortMA, ev.arg.longMA)
           ELSE ByRatio(ev.arg.shortMA, ev.arg.longMA, ev.arg.neutralThreshold,
                        ev.arg.result)
        /\ SignalExamples(ev.arg)

\* a call with a long average of 2^-53 and a threshold above the ratio: long
C15_Witness ==
    /\ ev.op = "computeSignal"
    /\ ev.arg.longMA = Tiny(1, 2)
    /\ ev.arg.shortMA = Tiny(1, 1)
    /\ ev.arg.neutralThreshold = Num(5)
    /\ ev.arg.result = "long"

\* C16: every stored session has longWindow > shortWindow, tradeUnits > 0,
\* both multipliers > 0 and neutralThreshold >= 0 (createSession and
\* updateSession reject every configuration that violates one of these).
C16_StoredConfigsAreValid ==
    \A s \in SessionsNow :
        LET config == sessions[s].config
        IN  /\ config.longWindow > config.shortWindow
            /\ FGt(config.tradeUnits, Num(0))
            /\ FGt(config.takeProfitMultiplier, Num(0))
            /\ FGt(config.stopLossMultiplier, Num(0))
            /\ FLe(Num(0), config.neutralThreshold)

\* C17: closing is terminal: a position record whose status is closed keeps
\* status closed in every later state.
C17_ClosedStaysClosed ==
    [][\A p \in 1 .. Len(positions) :
        positions[p].status = "closed"
            => /\ p <= Len(positions')
               /\ positions'[p].status = "closed"
               /\ positions'[p].sessionId = positions[p].sessionId]_vars

\* a tick has returned after closing one position and opening the next: the
\* first record is still closed
C17_Witness ==
    /\ ev.op = "evaluate"
    /\ jobs[ev.arg].pc = "done"
    /\ Len(positions) = 2
    /\ positions[1].status = "closed"
    /\ positions[2].status = "open"
    /\ positions[1].sessionId = positions[2].sessionId

\* C18: nothing is deleted and the log is append-only: in every step each
\* session's log keeps all its entries (level, message, details) and may only
\* gain entries, every session record stays in the table and every position
\* record stays in the table.
C18_AppendOnly ==
    [][/\ \A s \in DOMAIN logs : logs[s] \sqsubseteq logs'[s]
       /\ Len(sessions') >= Len(sessions)
       /\ Len(positions') >= Len(positions)
       /\ \A p \in 1 .. Len(positions) : positions'[p].sessionId = positions[p].sessionId]_vars

\* a session's log holds entries of the user's operations and of two ticks,
\* an error entry among them
C18_Witness ==
    \E s \in SessionsNow :
        /\ CountMessages(logs[s], UserMessages) = 3
        /\ CountMessages(logs[s], {"Tick processed"}) = 2
        /\ CountLevel(logs[s], "error") = 1
        /\ CountLevel(logs[s], "trade") >= 1

\* position k of the tick's list carries a trade id the broker's answer lacks
GoneAtBroker(j, k, liveIds) ==
    /\ positions[jobs[j].open[k]].oandaTradeId # 0
    /\ positions[jobs[j].open[k]].oandaTradeId \notin liveIds

\* the reconcile loop moves from list index `from` to its next stop: it skips
\* exactly the positions that are paper or still live and stops at the first
\* one gone at the broker, or leaves the loop when there is none
ReconcileAdvance(j, from, liveIds) ==
    IF \E k \in from + 1 .. Len(jobs[j].open) : GoneAtBroker(j, k, liveIds)
    THEN /\ jobs'[j].pc = "recClose"
         /\ jobs'[j].i \in from + 1 .. Len(jobs[j].open)
         /\ GoneAtBroker(j, jobs'[j].i, liveIds)
         /\ \A k \in from + 1 .. jobs'[j].i - 1 : ~GoneAtBroker(j, k, liveIds)
    ELSE jobs'[j].pc = "resync"

\* C20: with the broker configured, open positions in the tick's list and an
\* answered open-trades query, the reconcile step closes exactly the listed
\* positions whose trade id is not among the broker's open trades: reason
\* broker-closed, exit price the tick's latest price, realized P&L left unset;
\* positions without a trade id or with a live trade id are not touched.
C20_ReconcileClosesGoneTrades ==
    [][\A j \in JobsNow :
        TickStep(j) =>
            LET job == jobs[j]
            IN  /\ (job.pc = "sync" /\ jobs'[j].pc # "syncWarn")
                    => /\ isOandaConfigured /\ Len(job.open) > 0
                       /\ jobs'[j].liveIds = broker.open
                       /\ positions' = positions
                       /\ ReconcileAdvance(j, 0, broker.open)
                /\ job.pc = "recClose"
                    => /\ GoneAtBroker(j, job.i, job.liveIds)
                       /\ positions' = [positions EXCEPT
                            ![job.open[job.i]].status = "closed",
                            ![job.open[job.i]].closeReason = "broker-closed",
                            ![job.open[job.i]].exitPrice = job.latestPrice]
                       /\ positions'[job.open[job.i]].realizedPnl = Undefined
                       /\ jobs'[j].pc = "recLog"
                /\ job.pc = "recLog"
                    => /\ positions' = positions
                       /\ ReconcileAdvance(j, job.i, job.liveIds)
                /\ job.pc = "resync" => positions' = positions]_vars

\* the reconcile step has just closed the record of a trade the broker closed
C20_Witness ==
    /\ ev.op = "evaluate"
    /\ jobs[ev.arg].pc = "recLog"
    /\ LET p == jobs[ev.arg].open[jobs[ev.arg].i]
       IN  /\ positions[p].status = "closed"
           /\ positions[p].closeReason = "broker-closed"
           /\ positions[p].exitPrice = jobs[ev.arg].latestPrice
           /\ positions[p].realizedPnl = Undefined
           /\ positions[p].oandaTradeId \notin broker.open

\* the session a step belongs to: the argument of a public mutation, the
\* session of the job that stepped, 0 for a step of the cron or the broker
StepSession ==
    IF ev'.op \in {"evaluate", "close"} THEN jobs[ev'.arg].sid
    ELSE IF ev'.op = "stopSession" THEN ev'.arg[1]
    ELSE IF ev'.op \in {"createSession", "updateSession", "startSession",
                        "requestImmediateTick"} THEN ev'.arg
    ELSE 0

\* C19: sessions are independent: a step of session A (public mutation, tick
\* or flatten job), also while a job of another session is running, leaves
\* every other session's record, positions and log entries unchanged, and a
\* position it inserts belongs to A.
C19_SessionsIndependent ==
    [][\A b \in DOMAIN logs :
        b # StepSession =>
            /\ logs'[b] = logs[b]
            /\ b \in SessionsNow => (b <= Len(sessions') /\ sessions'[b] = sessions[b])
            /\ \A p \in 1 .. Len(positions) :
                positions[p].sessionId = b
                    => (p <= Len(positions') /\ positions'[p] = positions[p])
            /\ \A p \in Len(positions) + 1 .. Len(positions') :
                positions'[p].sessionId # b]_vars

\* ticks of two sessions have run side by side and each has recorded a
\* position of its own session
C19_Witness ==
    /\ ev.op = "evaluate"
    /\ Len(jobs) = 2
    /\ jobs[1].sid # jobs[2].sid
    /\ jobs[1].pc = "openLog"
    /\ jobs[2].pc = "openLog"
    /\ Len(positions) = 2
    /\ positions[1].sessionId # positions[2].sessionId

\* ---------------------------------------------------------------------
\* the step of tick j that takes the close decision: the one that leaves
\* the analysis entry, the sync warning or the second read of the positions
\* without going to the broker's trade list
DecisionStep(j) ==
    /\ TickStep(j)
    /\ jobs[j].pc \in {"logAnalysis", "syncWarn", "resync"}
    /\ jobs'[j].pc # "sync"

\* the open positions the decision is taken on: those read at the start of
\* the tick, or read again after the reconcile loop
ViewAtDecision(j) ==
    IF jobs[j].pc = "resync" THEN OpenPositionsOf(jobs[j].sid) ELSE jobs[j].open

\* the position the decision is about: the first of the tick's view
ActiveAtDecision(j) == IF Len(ViewAtDecision(j)) > 0 THEN ViewAtDecision(j)[1] ELSE 0

\* the signal is neutral or differs from the direction of that position
MustClose(j) ==
    /\ ActiveAtDecision(j) # 0
    /\ \/ jobs[j].signal = "neutral"
       \/ jobs[j].signal # positions[ActiveAtDecision(j)].direction

OpenCheckStep(j) ==
    /\ TickStep(j)
    /\ \/ DecisionStep(j) /\ ~MustClose(j)
       \/ jobs[j].pc = "requery"

\* the open positions of the session in the tick's view at that step
ViewAtOpen(j) ==
    IF jobs[j].pc = "requery" THEN OpenPositionsOf(jobs[j].sid) ELSE ViewAtDecision(j)

Analytics(session) ==
    <<session.lastSignal, session.lastShortMA, session.lastLongMA, session.lastPrice,
      session.lastEvaluationTime>>

\* the analysis entries of a session's log
AnalysisEntries(log) == CountLevel(log, "analysis")

\* the steps of a tick up to and including the analysis entry
BeforeReconcile == {"start", "fetch", "warn", "analytics", "logAnalysis"}

\* C23: in a tick that passes the insufficient-data guard, updateAnalytics
\* writes the tick's lastSignal, lastShortMA, lastLongMA, lastPrice and
\* lastEvaluationTime, then the analysis entry is appended, and the tick has
\* changed no position and sent the broker nothing but the candle request up
\* to then; no later step of the tick, its catch included, changes these
\* analytics, and the catch changes the status to error only
C23_AnalyticsFirst ==
    [][\A j \in JobsNow : TickStep(j) =>
          /\ jobs[j].pc = "analytics" =>
               /\ Analytics(sessions'[jobs[j].sid]) =
                     <<jobs[j].signal, jobs[j].shortMA, jobs[j].longMA,
                       jobs[j].latestPrice, clock>>
               /\ clock # 0 /\ jobs[j].shortMA # Undefined
               /\ jobs'[j].pc = "logAnalysis"
          /\ jobs[j].pc = "logAnalysis" =>
               /\ AnalysisEntries(logs'[jobs[j].sid]) = AnalysisEntries(logs[jobs[j].sid]) + 1
               /\ jobs'[j].pc \notin BeforeReconcile \ {"done"}
          /\ jobs'[j].pc = "analytics" => jobs[j].pc = "fetch"
          /\ jobs'[j].pc = "logAnalysis" => jobs[j].pc = "analytics"
          /\ (jobs'[j].pc \notin BeforeReconcile \cup {"done", "catchLog", "catchStatus"}) =>
               jobs[j].pc \notin BeforeReconcile \ {"logAnalysis"}
          /\ jobs[j].pc \in BeforeReconcile =>
               /\ positions' = positions
               /\ broker' = broker
               /\ ev'.net \in {"none", "candles"}
          /\ jobs[j].pc # "analytics" =>
               \A s \in SessionsNow : Analytics(sessions'[s]) = Analytics(sessions[s])
          /\ jobs[j].pc = "catchStatus" =>
               /\ sessions'[jobs[j].sid].status = "error"
               /\ logs' = logs /\ positions' = positions
      ]_vars

\* a tick failed after its analysis entry: the session is in error and still
\* carries the signal and the price of the tick
C23_Witness ==
    \E s \in SessionsNow :
       /\ sessions[s].status = "error"
       /\ sessions[s].errorMessage = RequestFailedMsg
       /\ sessions[s].lastSignal # "neutral"
       /\ sessions[s].lastPrice # Undefined
       /\ AnalysisEntries(logs[s]) = 1
       /\ AllJobsDone
       /\ positions = <<>>

\* ---------------------------------------------------------------------
\* the step just taken is a step of job j (a tick or a flatten job)
StepOf(j) == ev'.op = jobs[j].kind /\ ev'.arg = j

\* the close of position p goes to the broker
BrokerClose(p) == positions[p].oandaTradeId # 0 /\ isOandaConfigured

\* C24: a close of a position with a broker trade id, the broker configured,
\* sends one closeTrade request and records a price and a profit/loss that
\* the broker reported; any other close sends nothing and records the
\* supplied market price with the profit/loss unset; either way the record
\* ends closed with the supplied reason and one trade entry is appended
C24_CloseRecordsBrokerValues ==
    [][\A j \in JobsNow : StepOf(j) =>
          /\ jobs[j].pc = "closeCall" =>
               /\ BrokerClose(jobs[j].cpos)
               /\ jobs'[j].pc \in {"closeRecord", "catchLog", "threw"}
          /\ jobs'[j].pc = "closeCall" =>
               /\ jobs[j].pc # "closeCall"
               /\ BrokerClose(jobs'[j].cpos)
          /\ (jobs'[j].pc = "closeRecord" /\ jobs[j].pc # "closeCall") =>
               /\ ~BrokerClose(jobs'[j].cpos)
               /\ ev'.net = "none"
          /\ jobs[j].pc = "closeRecord" =>
               LET p == jobs[j].cpos
               IN  /\ positions'[p].status = "closed"
                   /\ positions'[p].closeReason = jobs[j].creason
                   /\ IF BrokerClose(p)
                      THEN /\ positions'[p].exitPrice \in FillPrices
                           /\ positions'[p].realizedPnl \in Pnls
                      ELSE /\ positions'[p].exitPrice = jobs[j].cprice
                           /\ positions'[p].realizedPnl = Undefined
                   /\ jobs'[j].pc = "closeLog"
          /\ jobs[j].pc = "closeLog" =>
               /\ CountLevel(logs'[jobs[j].sid], "trade")
                     = CountLevel(logs[jobs[j].sid], "trade") + 1
               /\ jobs'[j].pc # "closeLog"
      ]_vars

\* ---------------------------------------------------------------------
\* C25: a position record without a broker trade id is a paper position:
\* with the broker configured every open submits a market order, and the
\* record created after it carries a trade id whatever the response was
C25_NoTradeIdOnlyIfPaper ==
    \A p \in 1 .. Len(positions) : positions[p].oandaTradeId = 0 => PaperMode

\* ---------------------------------------------------------------------
\* C26: the record a tick creates has units +|tradeUnits| for long and
\* -|tradeUnits| for short, and targets computed from the tick's market
\* price p, not from the fill price: takeProfit p*(1+tp) and stopLoss
\* p*(1-sl) for long, takeProfit p*(1-tp) and stopLoss p*(1+sl) for short
C26_UnitsAndTargets ==
    [][\A j \in JobsNow : (TickStep(j) /\ jobs[j].pc = "openRecord") =>
          LET new == positions'[Len(positions')]
              cfg == jobs[j].session.config
              p == jobs[j].latestPrice
              size == FAbs(cfg.tradeUnits)
          IN  /\ Len(positions') = Len(positions) + 1
              /\ new.direction = jobs[j].signal
              /\ new.direction \in {"long", "short"}
              /\ new.direction = "long" =>
                   /\ new.units = size
                   /\ new.takeProfitPrice = FAdd(p, FMul(p, cfg.takeProfitMultiplier))
                   /\ new.stopLossPrice = FSub(p, FMul(p, cfg.stopLossMultiplier))
              /\ new.direction = "short" =>
                   /\ new.units = FSub(Num(0), size)
                   /\ new.takeProfitPrice = FSub(p, FMul(p, cfg.takeProfitMultiplier))
                   /\ new.stopLossPrice = FAdd(p, FMul(p, cfg.stopLossMultiplier))
      ]_vars

\* a short position filled at the broker's price 11 on a market price of 10:
\* its targets are those of 10
C26_Witness ==
    \E k \in 1 .. Len(positions) :
       /\ positions[k].direction = "short"
       /\ positions[k].entryPrice = Num(11)
       /\ positions[k].oandaTradeId # 0
       /\ FLt(positions[k].units, Num(0))
       /\ FLt(positions[k].takeProfitPrice, Num(10))
       /\ FLt(Num(10), positions[k].stopLossPrice)
       /\ FLt(positions[k].stopLossPrice, Num(11))

\* ---------------------------------------------------------------------
\* the evaluations recorded in a session's log: analysis entries and
\* insufficient-data warnings
Evaluations(s) == CountMessages(logs[s], {"Tick processed", "Not enough historical candles"})

\* startSession has just moved session s to running and scheduled its tick,
\* with n evaluations recorded so far
JustStarted(s, n) ==
    /\ ev.op = "startSession" /\ ev.arg = s
    /\ s \in SessionsNow
    /\ sessions[s].status = "running"
    /\ Len(jobs) > 0
    /\ jobs[Len(jobs)].kind = "evaluate" /\ jobs[Len(jobs)].sid = s
    /\ jobs[Len(jobs)].pc = "start" /\ jobs[Len(jobs)].reason = "manual-start"
    /\ Evaluations(s) = n

\* a further evaluation or an error status is recorded, or a stopSession
\* has intervened
EvaluatedSince(s, n) ==
    /\ s \in SessionsNow
    /\ \/ Evaluations(s) > n
       \/ sessions[s].status \in {"error", "stopped"}

\* C27: once startSession has moved a session to running, under fair
\* scheduling of the jobs, an analysis entry, an insufficient-data warning or
\* an error status is eventually recorded for the session, unless a
\* stopSession intervenes
C27_StartedIsEvaluated ==
    \A s \in SessionIds, n \in 0 .. MaxJobs - 1 : JustStarted(s, n) ~> EvaluatedSince(s, n)

\* a session restarted after an error has been evaluated by the tick of the
\* restart: it is running with two analysis entries in its log
C27_Witness ==
    \E s \in SessionsNow :
       /\ sessions[s].status = "running"
       /\ CountMessages(logs[s], {"Trading session started"}) = 2
       /\ CountMessages(logs[s], {"Evaluation failed"}) = 1
       /\ CountMessages(logs[s], {"Tick processed"}) = 2
       /\ AllJobsDone

\* ---------------------------------------------------------------------
\* the open position records of session s
OpenRecords(s) ==
    {p \in 1 .. Len(positions) :
        positions[p].sessionId = s /\ positions[p].status = "open"}

\* C28: when the ticks of a session never overlap, the session has at most
\* one open position in every reachable state, with flatten jobs and the
\* start and stop mutations interleaving freely with the ticks
C28_SerialTicksOneOpen ==
    \A s \in SessionsNow : Cardinality(OpenRecords(s)) <= 1

\* two ticks of a session have run one after the other: the second closed
\* the position the first one opened and opened the next one
C28_Witness ==
    \E s \in SessionsNow :
       /\ Len(positions) = 2
       /\ positions[1].sessionId = s /\ positions[1].status = "closed"
       /\ positions[2].sessionId = s /\ positions[2].status = "open"
       /\ \A j \in JobsNow : jobs[j].kind = "evaluate"

\* ---------------------------------------------------------------------
\* C29: in every reachable state a session record carries an error message
\* if and only if its status is error
C29_MessageIffError ==
    \A s \in SessionsNow :
       sessions[s].errorMessage # NoMessage <=> sessions[s].status = "error"

\* a tick failed and set the session to error with its message; the user
\* restarted the session, which is running again without a message
C29_Witness ==
    \E s \in SessionsNow :
       /\ CountMessages(logs[s], {"Evaluation failed"}) = 1
       /\ CountMessages(logs[s], {"Trading session started"}) = 2
       /\ sessions[s].status = "running"
       /\ sessions[s].errorMessage = NoMessage

\* ---------------------------------------------------------------------
\* the last open attempt of session s failed at the broker and the session
\* was restarted since: the log holds the attempt to open on this signal, the
\* failure and two starts, no position was ever recorded, every other job has
\* returned and the session is running
RestartedAfterFailedEntry(s, signal) ==
    /\ CountMessages(logs[s], {"Attempting to open new position"}) = 1
    /\ CopiesIn(LogEntry("info", "Attempting to open new position", <<signal>>), logs[s]) = 1
    /\ CountMessages(logs[s], {"Evaluation failed"}) = 1
    /\ CountMessages(logs[s], {"Trading session started"}) = 2
    /\ CountMessages(logs[s], {"Trading session stopped"}) = 0
    /\ positions = <<>>
    /\ sessions[s].status = "running"

\* C30: after an open attempt that failed at the broker and a restart, the
\* tick of the restart, computing the same non-neutral signal with no
\* position open, attempts the open again
C30_FailedEntryRetried ==
    [][\A j \in JobsNow :
          (/\ DecisionStep(j)
           /\ jobs[j].reason = "manual-start"
           /\ jobs[j].signal # "neutral"
           /\ RestartedAfterFailedEntry(jobs[j].sid, jobs[j].signal)
           /\ \A k \in JobsNow \ {j} : jobs[k].pc \in {"done", "threw"})
          => jobs'[j].pc = "openInfo"
      ]_vars

\* ---------------------------------------------------------------------
\* the flatten job of a stopSession on session s and every tick have
\* returned, no broker request has failed, and the session is still stopped
FlattenedAndQuiet(s) ==
    /\ sessions[s].status = "stopped"
    /\ \E k \in JobsNow : jobs[k].kind = "close" /\ jobs[k].sid = s
    /\ \A k \in JobsNow : jobs[k].pc = "done"
    /\ CountMessages(logs[s], {"Evaluation failed", "Failed to sync open trades"}) = 0

\* C31: after a stopSession that schedules the flatten job, once that job and
\* every tick in flight have completed without a broker failure, the session
\* has no open position while it stays stopped
C31_StoppedIsFlat ==
    \A s \in SessionsNow : FlattenedAndQuiet(s) => OpenRecords(s) = {}

\* ---------------------------------------------------------------------
\* C32: a closed position record is never modified again: its close reason,
\* exit price and realized P&L keep the values of the first close, also when
\* a tick and a flatten job, or two ticks, close the same position
C32_ClosedRecordFrozen ==
    [][\A p \in 1 .. Len(positions) :
          positions[p].status = "closed" => positions'[p] = positions[p]
      ]_vars

\* ---------------------------------------------------------------------
\* C33: whenever the short and the long moving average are equal,
\* computeSignal returns neutral, for every neutralThreshold >= 0 (0
\* included) and every value of the long average
C33_EqualAveragesNeutral ==
    (/\ ev.op = "computeSignal"
     /\ ev.arg.shortMA = ev.arg.longMA
     /\ FLe(Num(0), ev.arg.neutralThreshold))
        => ev.arg.result = "neutral"

\* ---------------------------------------------------------------------
\* C34: in every tick that reaches the signal computation, each moving
\* average is the mean of a non-empty window of exactly shortWindow
\* (longWindow) of the closes: the window length is at least 1 and at
\* most the number of closes, so the latest-price fallback is not taken,
\* and no average is 0 / 0
AveragesComputed(j) ==
    j \in JobsNow /\ jobs[j].kind = "evaluate" /\ jobs[j].pc = "analytics"

FullWindow(length, count) == 1 <= length /\ length <= count

C34_AveragesOverFullWindows ==
    \A j \in JobIds : AveragesComputed(j) =>
        /\ FullWindow(jobs[j].session.config.shortWindow, jobs[j].i)
        /\ FullWindow(jobs[j].session.config.longWindow, jobs[j].i)
        /\ jobs[j].shortMA # NaN
        /\ jobs[j].longMA # NaN

====
